---- MODULE Spec2Model ----
(***************************************************************************)
(* Claim verification engine: the canonical claim parser (parser.py), the  *)
(* extraction rules (rules.py), the claim normalizer (normalizer.py), the  *)
(* drift detector (detector.py), the semantic search over the stored       *)
(* claims (ingestion/search.py) and the ingestion run it starts            *)
(* (ingestion/ingest.py).                                                  *)
(*                                                                         *)
(* Python strings are sequences of one-character strings.  Each component  *)
(* has its own specification (SpecParser, SpecValue, SpecDrift, SpecRules,  *)
(* SpecNormalize, SpecSearch and those built on them); the variables of    *)
(* the other components stay at their idle values.                         *)
(***************************************************************************)
EXTENDS Integers, Sequences, FiniteSets, TLC

VARIABLES
    p_pc,                  \* parser run: "start" | "built" | "done"
    p_args,                \* the five arguments of build_claim, or Null
    term,                  \* the value handed to parse_normalized_terms
    parsed,                \* what parse_normalized_terms returned or raised
    v_pc,                  \* value comparison: "start" | "done"
    val1, val2,            \* the arguments of is_value_different
    v_out,                 \* what is_value_different returned
    d_pc,                  \* detector run: "start" | "done"
    claim_rows,            \* detect_drift argument: list of rows
    article_lookup,        \* detect_drift argument: article_id -> published_at
    authoritative_source,  \* detect_drift argument
    drift_result,          \* what detect_drift returned or raised
    r_pc,                  \* rules run: "start" | "done"
    r_fn,                  \* the function of rules.py that is called
    r_arg,                 \* its argument
    r_out,                 \* what it returned or raised
    n_pc,                  \* normalizer run: "start" | "done"
    article,               \* the argument of normalize_article
    n_out,                 \* what normalize_article returned or raised
    s_pc,                  \* search run: "start" | "done"
    db,                    \* the tables sources, articles and claims
    user_input,            \* search_grouped argument
    user_vec,              \* what embed(user_input) gives
    min_similarity,        \* search_grouped argument
    s_match,               \* what find_best_semantic_match returned
    s_out,                 \* what search_grouped returned
    SOURCES,               \* ingestion/sources.py: the list all calls share
    api,                   \* what each source's API answers
    c_pc,                  \* per call: the statement it is at
    c_fn,                  \* per call: the function called
    c_query,               \* per call: user_input and its embedding
    c_symbol,              \* per call: the resolved symbol
    c_i,                   \* per call: the index of the loop it is in
    c_result,              \* per call: the result of its last search
    c_log,                 \* per call: what it has run so far
    c_out                  \* per call: what it returned

parser_vars == <<p_pc, p_args, term, parsed>>
value_vars  == <<v_pc, val1, val2, v_out>>
drift_vars  == <<d_pc, claim_rows, article_lookup, authoritative_source, drift_result>>
rules_vars  == <<r_pc, r_fn, r_arg, r_out>>
norm_vars   == <<n_pc, article, n_out>>
search_vars == <<s_pc, db, user_input, user_vec, min_similarity, s_match, s_out>>
call_vars   == <<SOURCES, api, c_pc, c_fn, c_query, c_symbol, c_i, c_result, c_log, c_out>>
vars == <<parser_vars, value_vars, drift_vars, rules_vars, norm_vars, search_vars, call_vars>>

Null == [type |-> "null"]

(***************************************************************************)
(* Bounds.                                                                 *)
(***************************************************************************)
MaxTermLen == 7
MaxValueLen == 2
MaxNumLen == 3
MaxRows == 3

(***************************************************************************)
(* Python values and string primitives.                                    *)
(***************************************************************************)
RECURSIVE StringsUpTo(_, _)
StringsUpTo(chars, n) ==
    IF n = 0 THEN {<<>>}
    ELSE LET shorter == StringsUpTo(chars, n - 1)
         IN  shorter \cup {Append(s, c) : s \in shorter, c \in chars}

\* A Python value: a str, or any other object with its truth value.
PyStr(s) == [type |-> "str", s |-> s]
PyOther(truthy) == [type |-> "other", truthy |-> truthy]
Truthy(v) == IF v.type = "str" THEN v.s # <<>> ELSE v.truthy

\* The characters str.strip() removes.
Whitespace == {" ", "\t", "\n", "\r"}

RECURSIVE LStrip(_)
LStrip(s) ==
    IF s = <<>> THEN s
    ELSE IF Head(s) \in Whitespace THEN LStrip(Tail(s)) ELSE s

RECURSIVE RStrip(_)
RStrip(s) ==
    IF s = <<>> THEN s
    ELSE IF s[Len(s)] \in Whitespace THEN RStrip(SubSeq(s, 1, Len(s) - 1)) ELSE s

\* str.strip()
Strip(s) == RStrip(LStrip(s))

\* str.find(c) + 1: the index of the first c in s, 0 when there is none.
Find(s, c) ==
    IF \E i \in 1..Len(s) : s[i] = c
    THEN CHOOSE i \in 1..Len(s) : s[i] = c /\ \A j \in 1..(i - 1) : s[j] # c
    ELSE 0

\* str.split(sep, maxsplit) for a one-character sep.
RECURSIVE Split(_, _, _)
Split(s, sep, maxsplit) ==
    LET i == Find(s, sep)
    IN  IF maxsplit = 0 \/ i = 0 THEN <<s>>
        ELSE <<SubSeq(s, 1, i - 1)>> \o Split(SubSeq(s, i + 1, Len(s)), sep, maxsplit - 1)

(***************************************************************************)
(* parser.py                                                               *)
(***************************************************************************)
Raise(e) == [raised |-> e]
Return(v) == [raised |-> "none", value |-> v]

\* Mutant: the pipe split is not limited to 3 splits.
parse_unbounded_split(t) ==
    IF ~Truthy(t) \/ t.type # "str" THEN Raise("ValueError")
    ELSE LET parts == Split(t.s, "|", -1)
         IN  IF Len(parts) # 4 THEN Raise("ValueError")
             ELSE IF Find(parts[4], "=") = 0 THEN Raise("ValueError")
             ELSE LET kv == Split(parts[4], "=", 1)
                  IN  Return([entity |-> Strip(parts[1]), claim_type |-> Strip(parts[2]),
                              scope |-> Strip(parts[3]), key |-> Strip(kv[1]),
                              value |-> Strip(kv[2])])

\* Mutant: key and value are split at the last '=' instead of the first.
parse_last_equals(t) ==
    IF ~Truthy(t) \/ t.type # "str" THEN Raise("ValueError")
    ELSE LET parts == Split(t.s, "|", 3)
         IN  IF Len(parts) # 4 THEN Raise("ValueError")
             ELSE IF Find(parts[4], "=") = 0 THEN Raise("ValueError")
             ELSE LET kv == parts[4]
                      e  == CHOOSE i \in 1..Len(kv) :
                                kv[i] = "=" /\ \A j \in (i + 1)..Len(kv) : kv[j] # "="
                  IN  Return([entity |-> Strip(parts[1]), claim_type |-> Strip(parts[2]),
                              scope |-> Strip(parts[3]), key |-> Strip(SubSeq(kv, 1, e - 1)),
                              value |-> Strip(SubSeq(kv, e + 1, Len(kv)))])

parse_normalized_terms(t) ==
    IF ~Truthy(t) \/ t.type # "str" THEN Raise("ValueError")
    ELSE LET parts == Split(t.s, "|", 3)
         IN  IF Len(parts) # 4 THEN Raise("ValueError")
             ELSE IF Find(parts[4], "=") = 0 THEN Raise("ValueError")
             ELSE LET kv == Split(parts[4], "=", 1)
                  IN  Return([entity |-> Strip(parts[1]), claim_type |-> Strip(parts[2]),
                              scope |-> Strip(parts[3]), key |-> Strip(kv[1]),
                              value |-> Strip(kv[2])])

(***************************************************************************)
(* normalizer.py: build_claim                                              *)
(***************************************************************************)
\* Mutant: key and value joined with ':'.
build_claim_colon(entity, claim_type, scope, key, value) ==
    entity \o <<"|">> \o claim_type \o <<"|">> \o scope \o <<"|">> \o key \o <<":">> \o value

build_claim(entity, claim_type, scope, key, value) ==
    entity \o <<"|">> \o claim_type \o <<"|">> \o scope \o <<"|">> \o key \o <<"=">> \o value

(***************************************************************************)
(* detector.py: is_value_different                                         *)
(*                                                                         *)
(* float(str) is modelled for the characters the inputs are made of: an    *)
(* optional sign, then "nan", "inf"/"infinity", or decimal digits with at   *)
(* most one '.' and at least one digit.  A finite value is kept exactly as *)
(* sign, integer part and fraction in units of 1e-9 (the inputs hold at     *)
(* most 9 fractional digits and no exponent), so the comparison with 1e-9   *)
(* is exact decimal arithmetic.                                            *)
(***************************************************************************)
Digits == {"0", "1", "2", "3", "4", "5", "6", "7", "8", "9"}
DigitVal(c) ==
    CASE c = "0" -> 0 [] c = "1" -> 1 [] c = "2" -> 2 [] c = "3" -> 3 [] c = "4" -> 4
      [] c = "5" -> 5 [] c = "6" -> 6 [] c = "7" -> 7 [] c = "8" -> 8 [] c = "9" -> 9

RECURSIVE DigitsValue(_)
DigitsValue(ds) ==
    IF ds = <<>> THEN 0
    ELSE DigitsValue(SubSeq(ds, 1, Len(ds) - 1)) * 10 + DigitVal(ds[Len(ds)])

NanoPerUnit == 10^9

\* The fraction digits ds as a number of 1e-9 units.
FracNanos(ds) ==
    DigitsValue([i \in 1..9 |-> IF i <= Len(ds) THEN ds[i] ELSE "0"])

NotAFloat == [ok |-> FALSE]

\* float(s) for a str s; ok = FALSE stands for ValueError.
float(s) ==
    LET t    == Strip(s)
        neg  == t # <<>> /\ t[1] = "-"
        body == IF t # <<>> /\ t[1] \in {"-", "+"} THEN Tail(t) ELSE t
        dot  == Find(body, ".")
        ipd  == IF dot = 0 THEN body ELSE SubSeq(body, 1, dot - 1)
        fpd  == IF dot = 0 THEN <<>> ELSE SubSeq(body, dot + 1, Len(body))
    IN  IF body = <<"n", "a", "n">>
            THEN [ok |-> TRUE, kind |-> "nan", neg |-> neg, ip |-> 0, fp |-> 0]
        ELSE IF body \in {<<"i", "n", "f">>, <<"i", "n", "f", "i", "n", "i", "t", "y">>}
            THEN [ok |-> TRUE, kind |-> "inf", neg |-> neg, ip |-> 0, fp |-> 0]
        ELSE IF /\ \A i \in 1..Len(ipd) : ipd[i] \in Digits
                /\ \A i \in 1..Len(fpd) : fpd[i] \in Digits
                /\ Len(ipd) + Len(fpd) > 0
            THEN [ok |-> TRUE, kind |-> "finite", neg |-> neg,
                  ip |-> DigitsValue(ipd), fp |-> FracNanos(fpd)]
        ELSE NotAFloat

Signed(f, n) == IF f.neg THEN 0 - n ELSE n

\* f1 - f2 for finite f1, f2, as <<whole units, nanos>> with 0 <= nanos < 10^9.
FiniteDiff(f1, f2) ==
    LET di == Signed(f1, f1.ip) - Signed(f2, f2.ip)
        df == Signed(f1, f1.fp) - Signed(f2, f2.fp)
    IN  IF df < 0 THEN <<di - 1, df + NanoPerUnit>> ELSE <<di, df>>

\* abs(d) > 1e-9 for a difference d = <<whole units, nanos>>.
AbsExceedsTolerance(d) ==
    \/ d[1] >= 1
    \/ d[1] = 0 /\ d[2] > 1
    \/ d[1] <= -2
    \/ d[1] = -1 /\ d[2] < NanoPerUnit - 1

\* abs(f1 - f2) > 1e-9 in IEEE arithmetic: every comparison with NaN is false,
\* and inf - inf is NaN.
AbsDiffExceeds(f1, f2) ==
    IF f1.kind = "nan" \/ f2.kind = "nan" THEN FALSE
    ELSE IF f1.kind = "inf" \/ f2.kind = "inf"
        THEN ~(f1.kind = "inf" /\ f2.kind = "inf" /\ f1.neg = f2.neg)
    ELSE AbsExceedsTolerance(FiniteDiff(f1, f2))

\* Mutant: exact string comparison only.
is_value_different_string_only(v1, v2) == v1 # v2

is_value_different(v1, v2) ==
    IF v1 = v2 THEN FALSE
    ELSE LET f1 == float(v1)
             f2 == float(v2)
         IN  IF f1.ok /\ f2.ok THEN AbsDiffExceeds(f1, f2) ELSE TRUE

(***************************************************************************)
(* detector.py: detect_drift                                               *)
(*                                                                         *)
(* A published_at datetime is an integer number of seconds, so that        *)
(* (obs_time - ref_time).total_seconds() is integer subtraction; the       *)
(* lookup holds datetimes only, as the docstring requires, so the          *)
(* AttributeError branch of the timing block is never entered.  grouped    *)
(* is the defaultdict as a list of (identity, claims) in insertion order,  *)
(* which is the order Python iterates it in.  Every claim and every event  *)
(* carries the index of the row it comes from in the field row, which the  *)
(* program does not have: it only lets a property name "the row's event".  *)
(***************************************************************************)
TIME_DRIFT_THRESHOLD_SECONDS == 15 * 60

Identity(f) == <<f.entity, f.claim_type, f.scope, f.key>>

\* {**row, **parsed}
Claim(row, f, i) ==
    [normalized_terms |-> row.normalized_terms, article_id |-> row.article_id,
     source_name |-> row.source_name, entity |-> f.entity, claim_type |-> f.claim_type,
     scope |-> f.scope, key |-> f.key, value |-> f.value, row |-> i]

\* grouped[identity].append(claim)
AppendToGroup(grouped, identity, claim) ==
    IF \E g \in 1..Len(grouped) : grouped[g].identity = identity
    THEN [g \in 1..Len(grouped) |->
            IF grouped[g].identity = identity
            THEN [grouped[g] EXCEPT !.claims = Append(@, claim)]
            ELSE grouped[g]]
    ELSE Append(grouped, [identity |-> identity, claims |-> <<claim>>])

\* normalized_terms of the rows: one claim with values 1 and 2 (the second
\* padded with whitespace), a claim of another identity, and a 3-segment
\* string that the parser rejects.
TermPool ==
    { <<"M", "|", "E", "|", "Q", "|", "K", "=", "1">>,
      <<"M", "|", "E", "|", "Q", "|", "K", " ", "=", " ", "2", " ">>,
      <<"M", "|", "E", "|", "Q", "|", "J", "=", "2">> }
MalformedTerm == <<"M", "|", "E", "|", "K", "=", "1">>

\* parse_normalized_terms on the terms of the rows, evaluated once per term.
ParsedTerm ==
    [t \in {PyStr(x) : x \in TermPool \cup {MalformedTerm}} |-> parse_normalized_terms(t)]

\* Mutant: the loop over claim_rows ends at the first row that fails to parse.
RECURSIVE GroupRows_break(_, _, _)
GroupRows_break(rows, i, grouped) ==
    IF i > Len(rows) THEN Return(grouped)
    ELSE LET p == ParsedTerm[rows[i].normalized_terms]
         IN  IF p.raised = "none"
                 THEN GroupRows_break(rows, i + 1,
                                      AppendToGroup(grouped, Identity(p.value),
                                                    Claim(rows[i], p.value, i)))
             ELSE IF p.raised = "ValueError" THEN Return(grouped)
             ELSE Raise(p.raised)

\* Steps 1 and 2: the loop over claim_rows from row i on.  A ValueError of the
\* parser is caught and the row skipped; any other exception leaves the loop.
RECURSIVE GroupRows(_, _, _)
GroupRows(rows, i, grouped) ==
    IF i > Len(rows) THEN Return(grouped)
    ELSE LET p == ParsedTerm[rows[i].normalized_terms]
         IN  IF p.raised = "none"
                 THEN GroupRows(rows, i + 1,
                                AppendToGroup(grouped, Identity(p.value),
                                              Claim(rows[i], p.value, i)))
             ELSE IF p.raised = "ValueError" THEN GroupRows(rows, i + 1, grouped)
             ELSE Raise(p.raised)

\* Mutant: a value difference is recorded with ref and observed swapped.
ValueDrift_swapped(c, ref) ==
    IF is_value_different(c.value, ref.value)
    THEN <<[type |-> "VALUE_DRIFT", ref |-> c.value, observed |-> ref.value]>>
    ELSE <<>>

\* The "Value drift" block: the entries it appends to event["drifts"].
ValueDrift(c, ref) ==
    IF is_value_different(c.value, ref.value)
    THEN <<[type |-> "VALUE_DRIFT", ref |-> ref.value, observed |-> c.value]>>
    ELSE <<>>

\* Mutant: the threshold test is >= instead of >.
TimeDrift_inclusive(c, ref_time, lookup) ==
    IF c.article_id \in DOMAIN lookup
    THEN LET delta == lookup[c.article_id] - ref_time
         IN  IF delta >= TIME_DRIFT_THRESHOLD_SECONDS
             THEN <<[type |-> "TIME_DRIFT", delay_seconds |-> delta]>>
             ELSE <<>>
    ELSE <<>>

\* The "Timing drift" block: the entries it appends to event["drifts"].
TimeDrift(c, ref_time, lookup) ==
    IF c.article_id \in DOMAIN lookup
    THEN LET delta == lookup[c.article_id] - ref_time
         IN  IF delta > TIME_DRIFT_THRESHOLD_SECONDS
             THEN <<[type |-> "TIME_DRIFT", delay_seconds |-> delta]>>
             ELSE <<>>
    ELSE <<>>

\* Mutant: an event is appended for every compared row.
EventsOf_always(c, identity, ref, ref_time, lookup) ==
    <<[identity |-> identity, source |-> c.source_name,
       drifts |-> ValueDrift(c, ref) \o TimeDrift(c, ref_time, lookup), row |-> c.row]>>

\* Mutant: a row whose article is missing from the lookup is skipped whole.
EventsOf_skip_missing(c, identity, ref, ref_time, lookup) ==
    LET drifts == ValueDrift(c, ref) \o TimeDrift(c, ref_time, lookup)
    IN  IF drifts # <<>> /\ c.article_id \in DOMAIN lookup
        THEN <<[identity |-> identity, source |-> c.source_name, drifts |-> drifts,
                row |-> c.row]>>
        ELSE <<>>

\* One pass of the inner loop for a non-authoritative claim c: the events it
\* appends to drift_events.
EventsOf(c, identity, ref, ref_time, lookup) ==
    LET drifts == ValueDrift(c, ref) \o TimeDrift(c, ref_time, lookup)
    IN  IF drifts # <<>>
        THEN <<[identity |-> identity, source |-> c.source_name, drifts |-> drifts,
                row |-> c.row]>>
        ELSE <<>>

\* Mutant: the inner loop ends at the first claim whose article is missing.
RECURSIVE CompareClaims_break(_, _, _, _, _, _, _)
CompareClaims_break(claims, j, identity, ref, ref_time, lookup, auth) ==
    IF j > Len(claims) THEN <<>>
    ELSE IF claims[j].source_name = auth
        THEN CompareClaims_break(claims, j + 1, identity, ref, ref_time, lookup, auth)
    ELSE IF claims[j].article_id \notin DOMAIN lookup
        THEN EventsOf(claims[j], identity, ref, ref_time, lookup)
    ELSE EventsOf(claims[j], identity, ref, ref_time, lookup)
         \o CompareClaims_break(claims, j + 1, identity, ref, ref_time, lookup, auth)

\* Mutant: the inner loop compares the authoritative rows as well.
RECURSIVE CompareClaims_no_skip(_, _, _, _, _, _, _)
CompareClaims_no_skip(claims, j, identity, ref, ref_time, lookup, auth) ==
    IF j > Len(claims) THEN <<>>
    ELSE EventsOf(claims[j], identity, ref, ref_time, lookup)
         \o CompareClaims_no_skip(claims, j + 1, identity, ref, ref_time, lookup, auth)

\* The inner loop "for c in claims" from claim j on.
RECURSIVE CompareClaims(_, _, _, _, _, _, _)
CompareClaims(claims, j, identity, ref, ref_time, lookup, auth) ==
    IF j > Len(claims) THEN <<>>
    ELSE (IF claims[j].source_name = auth THEN <<>>
          ELSE EventsOf(claims[j], identity, ref, ref_time, lookup))
         \o CompareClaims(claims, j + 1, identity, ref, ref_time, lookup, auth)

\* Mutant: the reference article is looked up without the membership test.
RefInLookup_unchecked(ref, lookup) == TRUE

\* ref["article_id"] in article_lookup
RefInLookup(ref, lookup) == ref.article_id \in DOMAIN lookup

\* Mutant: the last authoritative row is the reference.
Reference_last(claims, auth) ==
    LET reference == SelectSeq(claims, LAMBDA c : c.source_name = auth)
    IN  IF reference = <<>> THEN <<>> ELSE <<reference[Len(reference)]>>

\* reference = [c for c in claims if c["source_name"] == authoritative_source],
\* cut to reference[0] when it is not empty.
Reference(claims, auth) ==
    LET reference == SelectSeq(claims, LAMBDA c : c.source_name = auth)
    IN  IF reference = <<>> THEN <<>> ELSE <<reference[1]>>

\* One pass of the outer loop "for identity, claims in grouped.items()".
\* article_lookup[ref["article_id"]] raises KeyError for an absent key.
CompareGroup(group, lookup, auth) ==
    LET reference == Reference(group.claims, auth)
    IN  IF reference = <<>> THEN Return(<<>>)
        ELSE LET ref == reference[1]
             IN  IF ~RefInLookup(ref, lookup) THEN Return(<<>>)
                 ELSE IF ref.article_id \notin DOMAIN lookup THEN Raise("KeyError")
                 ELSE Return(CompareClaims(group.claims, 1, group.identity, ref,
                                           lookup[ref.article_id], lookup, auth))

\* Steps 3 and 4: the outer loop from group g on.
RECURSIVE CompareGroups(_, _, _, _)
CompareGroups(grouped, g, lookup, auth) ==
    IF g > Len(grouped) THEN Return(<<>>)
    ELSE LET here == CompareGroup(grouped[g], lookup, auth)
         IN  IF here.raised # "none" THEN here
             ELSE LET rest == CompareGroups(grouped, g + 1, lookup, auth)
                  IN  IF rest.raised # "none" THEN rest
                      ELSE Return(here.value \o rest.value)

detect_drift(rows, lookup, auth) ==
    LET grouped == GroupRows(rows, 1, <<>>)
    IN  IF grouped.raised # "none" THEN grouped
        ELSE CompareGroups(grouped.value, 1, lookup, auth)

(***************************************************************************)
(* rules.py                                                                *)
(*                                                                         *)
(* re.search is modelled per pattern: the leftmost start at which the      *)
(* pattern matches, with the groups the backtracking matcher settles on.   *)
(* \d is the ten ASCII digits and \s the whitespace the inputs hold.       *)
(* Decimal(str) is modelled for inputs made of a sign, digits and '.' (no  *)
(* exponent, NaN or Infinity): coef holds the digits of the coefficient    *)
(* without leading zeros and exp <= 0 the exponent; coefficients stay      *)
(* below the 28 digits of the context precision, so products are exact.    *)
(* An int is held as the digits str() gives for it.                        *)
(***************************************************************************)
None == PyOther(FALSE)
\* An int or float, with the text str() gives for it.
PyNum(s, nonzero) == [type |-> "num", s |-> s, truthy |-> nonzero]

IsDigits(x) == \A i \in 1..Len(x) : x[i] \in Digits
Zeros(n) == [i \in 1..n |-> "0"]
DigitChar(n) == CHOOSE c \in Digits : DigitVal(c) = n

\* str(n) for an int n >= 0
RECURSIVE NatStr(_)
NatStr(n) == IF n < 10 THEN <<DigitChar(n)>> ELSE NatStr(n \div 10) \o <<DigitChar(n % 10)>>

\* The digits of int(ds): leading zeros dropped, "0" for zero.
RECURSIVE StripZeros(_)
StripZeros(ds) ==
    IF ds = <<>> THEN <<"0">>
    ELSE IF Len(ds) > 1 /\ ds[1] = "0" THEN StripZeros(Tail(ds)) ELSE ds

\* s.replace(c, '') for every character c of chars
Without(s, chars) == SelectSeq(s, LAMBDA c : c \notin chars)

UpperCase ==
    <<"A", "B", "C", "D", "E", "F", "G", "H", "I", "J", "K", "L", "M",
      "N", "O", "P", "Q", "R", "S", "T", "U", "V", "W", "X", "Y", "Z">>
LowerCase ==
    <<"a", "b", "c", "d", "e", "f", "g", "h", "i", "j", "k", "l", "m",
      "n", "o", "p", "q", "r", "s", "t", "u", "v", "w", "x", "y", "z">>

\* str.lower()
Lower(s) ==
    [i \in 1..Len(s) |->
        IF \E k \in 1..26 : UpperCase[k] = s[i]
        THEN LowerCase[CHOOSE k \in 1..26 : UpperCase[k] = s[i]]
        ELSE s[i]]

\* pat in s
Contains(s, pat) ==
    \E i \in 0..(Len(s) - Len(pat)) : SubSeq(s, i + 1, i + Len(pat)) = pat

\* The end of the longest run of characters of chars that starts at s[i]:
\* the index after its last character.
RunEnd(s, i, chars) ==
    CHOOSE j \in i..(Len(s) + 1) :
        /\ j = Len(s) + 1 \/ s[j] \notin chars
        /\ \A k \in i..(j - 1) : s[k] \in chars

NotADecimal == [ok |-> FALSE]

\* Decimal(s); ok = FALSE stands for InvalidOperation.
Decimal(s) ==
    LET t    == Without(Strip(s), {"_"})
        neg  == t # <<>> /\ t[1] = "-"
        body == IF t # <<>> /\ t[1] \in {"-", "+"} THEN Tail(t) ELSE t
        dot  == Find(body, ".")
        ipd  == IF dot = 0 THEN body ELSE SubSeq(body, 1, dot - 1)
        fpd  == IF dot = 0 THEN <<>> ELSE SubSeq(body, dot + 1, Len(body))
    IN  IF IsDigits(ipd) /\ IsDigits(fpd) /\ Len(ipd) + Len(fpd) > 0
        THEN [ok |-> TRUE, neg |-> neg, coef |-> StripZeros(ipd \o fpd),
              exp |-> 0 - Len(fpd)]
        ELSE NotADecimal

\* str(d) for a Decimal d: plain notation when exp <= 0 and the adjusted
\* exponent is at least -6, scientific notation otherwise.
DecimalStr(d) ==
    LET n          == Len(d.coef)
        leftdigits == d.exp + n
        dotplace   == IF d.exp <= 0 /\ leftdigits > -6 THEN leftdigits ELSE 1
        intpart    == IF dotplace <= 0 THEN <<"0">>
                      ELSE IF dotplace >= n THEN d.coef \o Zeros(dotplace - n)
                      ELSE SubSeq(d.coef, 1, dotplace)
        fracpart   == IF dotplace <= 0 THEN <<".">> \o Zeros(0 - dotplace) \o d.coef
                      ELSE IF dotplace >= n THEN <<>>
                      ELSE <<".">> \o SubSeq(d.coef, dotplace + 1, n)
        e          == leftdigits - dotplace
        exppart    == IF e = 0 THEN <<>>
                      ELSE IF e < 0 THEN <<"E", "-">> \o NatStr(0 - e)
                      ELSE <<"E", "+">> \o NatStr(e)
    IN  (IF d.neg THEN <<"-">> ELSE <<>>) \o intpart \o fracpart \o exppart

\* int(d * Decimal(10 ** k)) for a Decimal d >= 0: the decimal point moves k
\* places to the right and the fraction that is left is cut off.
ScaledInt(d, k) ==
    LET shift == d.exp + k
        n     == Len(d.coef)
    IN  IF shift >= 0 THEN StripZeros(d.coef \o Zeros(shift))
        ELSE IF n <= 0 - shift THEN <<"0">>
        ELSE SubSeq(d.coef, 1, n + shift)

NoMatch == [ok |-> FALSE]

\* EPS_PATTERN = EPS\s*\$?([\d\.]+), ignoring case, tried at s[i].
EpsMatchAt(s, i) ==
    IF i + 2 <= Len(s) /\ Lower(SubSeq(s, i, i + 2)) = <<"e", "p", "s">>
    THEN LET w == RunEnd(s, i + 3, Whitespace)
             d == IF w <= Len(s) /\ s[w] = "$" THEN w + 1 ELSE w
             e == RunEnd(s, d, Digits \cup {"."})
         IN  IF e > d THEN [ok |-> TRUE, group1 |-> SubSeq(s, d, e - 1)] ELSE NoMatch
    ELSE NoMatch

\* EPS_PATTERN.search(s)
EpsSearch(s) ==
    IF \E i \in 1..Len(s) : EpsMatchAt(s, i).ok
    THEN EpsMatchAt(s, CHOOSE i \in 1..Len(s) :
                          EpsMatchAt(s, i).ok /\ \A k \in 1..(i - 1) : ~EpsMatchAt(s, k).ok)
    ELSE NoMatch

\* normalize_eps(raw_eps) for a Python value raw_eps; re.search raises
\* TypeError for a value that is not a str.
normalize_eps(raw_eps) ==
    IF raw_eps.type # "str" THEN Raise("TypeError")
    ELSE LET match   == EpsSearch(raw_eps.s)
             raw     == IF match.ok THEN match.group1 ELSE raw_eps.s
             cleaned == Without(Strip(raw), {"$", ","})
             dec     == Decimal(cleaned)
         IN  IF dec.ok THEN Return(dec) ELSE Raise("ValueError")

UnitLetters == {"B", "b", "M", "m"}

\* REVENUE_PATTERN = \$?([\d,]+\.?\d*)\s*(B|billion|M|million), ignoring
\* case, with group 1 starting at s[n].  Group 2 is the one letter the first
\* alternative that fits, B or M, matches.
RevenueMatchAt(s, n) ==
    LET a == RunEnd(s, n, Digits \cup {","})
        b == IF a <= Len(s) /\ s[a] = "." THEN a + 1 ELSE a
        c == RunEnd(s, b, Digits)
        u == RunEnd(s, c, Whitespace)
    IN  IF a > n /\ u <= Len(s) /\ s[u] \in UnitLetters
        THEN [ok |-> TRUE, group1 |-> SubSeq(s, n, c - 1), group2 |-> <<s[u]>>]
        ELSE NoMatch

\* REVENUE_PATTERN.search(s)
RevenueSearch(s) ==
    IF \E n \in 1..Len(s) : RevenueMatchAt(s, n).ok
    THEN RevenueMatchAt(s, CHOOSE n \in 1..Len(s) :
                          RevenueMatchAt(s, n).ok
                              /\ \A k \in 1..(n - 1) : ~RevenueMatchAt(s, k).ok)
    ELSE NoMatch

\* normalize_revenue(raw_rev) for a Python value raw_rev
normalize_revenue(raw_rev) ==
    IF raw_rev.type # "str" THEN Raise("TypeError")
    ELSE LET match == RevenueSearch(raw_rev.s)
         IN  IF ~match.ok THEN Raise("ValueError")
             ELSE LET value_str == Without(match.group1, {","})
                      value     == Decimal(value_str)
                      unit      == Lower(match.group2)
                  IN  IF ~value.ok THEN Raise("ValueError")
                      ELSE IF unit[1] = "b" THEN Return(ScaledInt(value, 9))
                      ELSE IF unit[1] = "m" THEN Return(ScaledInt(value, 6))
                      ELSE Raise("ValueError")

\* Q([1-4]).*?(\d{2}|\d{4}), ignoring case, tried at s[i] with the year at
\* s[j]: '.' matches anything but a newline, and of the two alternatives
\* for the year the first, \d{2}, fits wherever \d{4} does.
PeriodYearAt(s, i, j) ==
    /\ j >= i + 2 /\ j + 1 <= Len(s)
    /\ s[j] \in Digits /\ s[j + 1] \in Digits
    /\ \A k \in (i + 2)..(j - 1) : s[k] # "\n"

PeriodMatchAt(s, i) ==
    IF /\ i + 1 <= Len(s)
       /\ s[i] \in {"Q", "q"}
       /\ s[i + 1] \in {"1", "2", "3", "4"}
       /\ \E j \in 1..Len(s) : PeriodYearAt(s, i, j)
    THEN LET j == CHOOSE j \in 1..Len(s) :
                    PeriodYearAt(s, i, j) /\ \A k \in 1..(j - 1) : ~PeriodYearAt(s, i, k)
         IN  [ok |-> TRUE, group1 |-> <<s[i + 1]>>, group2 |-> SubSeq(s, j, j + 1)]
    ELSE NoMatch

\* re.search(r"Q([1-4]).*?(\d{2}|\d{4})", s, re.I)
PeriodSearch(s) ==
    IF \E i \in 1..Len(s) : PeriodMatchAt(s, i).ok
    THEN PeriodMatchAt(s, CHOOSE i \in 1..Len(s) :
                          PeriodMatchAt(s, i).ok
                              /\ \A k \in 1..(i - 1) : ~PeriodMatchAt(s, k).ok)
    ELSE NoMatch

\* normalize_period(raw) for a str raw
normalize_period(raw) ==
    LET m == PeriodSearch(raw)
    IN  IF ~m.ok THEN Raise("ValueError")
        ELSE LET quarter == m.group1
                 year    == IF Len(m.group2) = 2 THEN <<"2", "0">> \o m.group2
                            ELSE m.group2
             IN  Return(<<"F", "Y">> \o year \o <<"-", "Q">> \o quarter)

(***************************************************************************)
(* normalizer.py: normalize_article                                        *)
(*                                                                         *)
(* An article is a dict whose four entries are Python values (None for a   *)
(* missing key or a NULL column), or a value that is not a dict.  The      *)
(* institution of a dict is a str or None.                                 *)
(***************************************************************************)
PyDict(institution, title, eps, revenue) ==
    [type |-> "dict", institution |-> institution, title |-> title, eps |-> eps,
     revenue |-> revenue]

EARNINGS == <<"E", "A", "R", "N", "I", "N", "G", "S">>
HALT == <<"H", "A", "L", "T">>
NASDAQ == <<"N", "A", "S", "D", "A", "Q">>
STATUS == <<"S", "T", "A", "T", "U", "S">>
HALTED == <<"H", "A", "L", "T", "E", "D">>
EPS == <<"E", "P", "S">>
REVENUE_USD == <<"R", "E", "V", "E", "N", "U", "E", "_", "U", "S", "D">>

\* Mutant: "trading halt" is looked for before "earnings".
Classify_halt_first(title_lower) ==
    IF Contains(title_lower, <<"t", "r", "a", "d", "i", "n", "g", " ", "h", "a", "l", "t">>)
        THEN HALT
    ELSE IF Contains(title_lower, <<"e", "a", "r", "n", "i", "n", "g", "s">>)
        THEN EARNINGS
    ELSE <<>>

\* "classify disclosure type": claim_type, the empty string when the article
\* is not eligible.
Classify(title_lower) ==
    IF Contains(title_lower, <<"e", "a", "r", "n", "i", "n", "g", "s">>)
        THEN EARNINGS
    ELSE IF Contains(title_lower, <<"t", "r", "a", "d", "i", "n", "g", " ", "h", "a", "l", "t">>)
        THEN HALT
    ELSE <<>>

\* The "Process EPS" block: the claims it appends.  ValueError and TypeError
\* are caught, any other exception leaves normalize_article.
EpsClaims(art, institution, period) ==
    IF ~Truthy(art.eps) THEN Return(<<>>)
    ELSE LET eps_value == IF art.eps.type = "num" THEN PyStr(art.eps.s) ELSE art.eps
             eps       == normalize_eps(eps_value)
         IN  IF eps.raised = "none"
                 THEN Return(<<build_claim(institution, EARNINGS, period, EPS,
                                           DecimalStr(eps.value))>>)
             ELSE IF eps.raised \in {"ValueError", "TypeError"} THEN Return(<<>>)
             ELSE eps

\* The "Process Revenue" block: the claims it appends.
RevenueClaims(art, institution, period) ==
    IF ~Truthy(art.revenue) THEN Return(<<>>)
    ELSE LET revenue_value == IF art.revenue.type = "num"
                              THEN PyStr(<<"$">> \o art.revenue.s) ELSE art.revenue
             revenue       == normalize_revenue(revenue_value)
         IN  IF revenue.raised = "none"
                 THEN Return(<<build_claim(institution, EARNINGS, period, REVENUE_USD,
                                           revenue.value)>>)
             ELSE IF revenue.raised \in {"ValueError", "TypeError"} THEN Return(<<>>)
             ELSE revenue

\* Mutant: a failure of the EPS ends the processing of the article.
EarningsClaims_eps_aborts(art, institution, title) ==
    LET period == normalize_period(title)
    IN  IF period.raised = "ValueError" THEN Return(<<>>)
        ELSE IF period.raised # "none" THEN period
        ELSE LET e == EpsClaims(art, institution, period.value)
                 r == RevenueClaims(art, institution, period.value)
             IN  IF e.raised # "none" THEN e
                 ELSE IF Truthy(art.eps) /\ e.value = <<>> THEN Return(<<>>)
                 ELSE IF r.raised # "none" THEN r
                 ELSE Return(e.value \o r.value)

\* The "earnings normalization" branch.
EarningsClaims(art, institution, title) ==
    LET period == normalize_period(title)
    IN  IF period.raised = "ValueError" THEN Return(<<>>)
        ELSE IF period.raised # "none" THEN period
        ELSE LET e == EpsClaims(art, institution, period.value)
                 r == RevenueClaims(art, institution, period.value)
             IN  IF e.raised # "none" THEN e
                 ELSE IF r.raised # "none" THEN r
                 ELSE Return(e.value \o r.value)

\* Mutant: scope and key of the halt claim change places.
HaltClaims_swapped(institution) ==
    <<build_claim(institution, HALT, STATUS, NASDAQ, HALTED)>>

\* The "trading halt normalization" branch.
HaltClaims(institution) ==
    <<build_claim(institution, HALT, NASDAQ, STATUS, HALTED)>>

\* normalize_article(article); title.lower() raises AttributeError for a
\* title that is neither a str nor falsy.
normalize_article(art) ==
    IF art.type # "dict" THEN Return(<<>>)
    ELSE LET institution == art.institution
             title       == IF Truthy(art.title) THEN art.title ELSE PyStr(<<>>)
         IN  IF ~Truthy(institution) THEN Return(<<>>)
             ELSE IF title.type # "str" THEN Raise("AttributeError")
             ELSE LET claim_type == Classify(Lower(title.s))
                  IN  IF claim_type = EARNINGS
                          THEN EarningsClaims(art, institution.s, title.s)
                      ELSE IF claim_type = HALT THEN Return(HaltClaims(institution.s))
                      ELSE Return(<<>>)

(***************************************************************************)
(* SpecParser: a caller either hands a raw value to                        *)
(* parse_normalized_terms, or builds a claim string with build_claim and   *)
(* parses that.                                                            *)
(***************************************************************************)
TermChars == {"a", "|", "=", " "}
FieldPool == {<<>>, <<"a">>, <<"|">>, <<"=">>, <<" ">>}

RawTerms ==
    {PyStr(s) : s \in StringsUpTo(TermChars, MaxTermLen)} \cup {PyOther(TRUE), PyOther(FALSE)}

ArgsSet ==
    [entity : FieldPool, claim_type : FieldPool, scope : FieldPool, key : FieldPool,
     value : StringsUpTo(TermChars, MaxValueLen)]

ParserIdle == p_pc = "idle" /\ p_args = Null /\ term = Null /\ parsed = Null
ValueIdle == v_pc = "idle" /\ val1 = Null /\ val2 = Null /\ v_out = Null
DriftIdle ==
    /\ d_pc = "idle" /\ claim_rows = <<>> /\ article_lookup = <<>>
    /\ authoritative_source = Null /\ drift_result = Null
RulesIdle == r_pc = "idle" /\ r_fn = Null /\ r_arg = Null /\ r_out = Null
NormIdle == n_pc = "idle" /\ article = Null /\ n_out = Null
SearchIdle ==
    /\ s_pc = "idle" /\ db = Null /\ user_input = Null /\ user_vec = Null
    /\ min_similarity = Null /\ s_match = Null /\ s_out = Null
CallsIdle ==
    /\ SOURCES = Null /\ api = Null /\ c_pc = <<>> /\ c_fn = <<>>
    /\ c_query = <<>> /\ c_symbol = <<>> /\ c_i = <<>> /\ c_result = <<>>
    /\ c_log = <<>> /\ c_out = <<>>

InitParser ==
    /\ p_pc = "start"
    /\ parsed = Null
    /\ \/ p_args = Null /\ term \in RawTerms
       \/ p_args \in ArgsSet /\ term = Null
    /\ ValueIdle
    /\ DriftIdle
    /\ RulesIdle
    /\ NormIdle
    /\ SearchIdle
    /\ CallsIdle

\* term = build_claim(entity, claim_type, scope, key, value)
Build ==
    /\ p_pc = "start"
    /\ p_args # Null
    /\ term' = PyStr(build_claim(p_args.entity, p_args.claim_type, p_args.scope,
                                 p_args.key, p_args.value))
    /\ p_pc' = "built"
    /\ UNCHANGED <<p_args, parsed, value_vars, drift_vars, rules_vars, norm_vars, search_vars, call_vars>>

\* parse_normalized_terms(term)
Parse ==
    /\ \/ p_pc = "start" /\ p_args = Null
       \/ p_pc = "built"
    /\ parsed' = parse_normalized_terms(term)
    /\ p_pc' = "done"
    /\ UNCHANGED <<p_args, term, value_vars, drift_vars, rules_vars, norm_vars, search_vars, call_vars>>

NextParser == Build \/ Parse

SpecParser == InitParser /\ [][NextParser]_vars

(***************************************************************************)
(* Claims about the parser.                                                *)
(***************************************************************************)
Positions(s, c) == {i \in 1..Len(s) : s[i] = c}

\* The index of the n-th occurrence of c in s.
NthPos(s, c, n) ==
    CHOOSE i \in Positions(s, c) : Cardinality({j \in Positions(s, c) : j < i}) = n - 1

\* What follows the third '|' of s.
Remainder(s) == SubSeq(s, NthPos(s, "|", 3) + 1, Len(s))

\* t is x with its surrounding whitespace removed.
IsTrimOf(t, x) ==
    /\ t = <<>> \/ (t[1] \notin Whitespace /\ t[Len(t)] \notin Whitespace)
    /\ \E i \in 0..Len(x) :
          /\ i + Len(t) <= Len(x)
          /\ SubSeq(x, i + 1, i + Len(t)) = t
          /\ \A j \in 1..Len(x) : (j <= i \/ j > i + Len(t)) => x[j] \in Whitespace

\* The inputs C1 says are rejected.
Rejected(t) ==
    \/ t.type # "str"
    \/ t.s = <<>>
    \/ Cardinality(Positions(t.s, "|")) < 3
    \/ Positions(Remainder(t.s), "=") = {}

\* C1: parse_normalized_terms raises ValueError exactly for the inputs that
\* are empty, not a string, have fewer than 4 segments under split('|', 3) or
\* have no '=' in the 4th segment, and returns a result for every other input.
C1_RejectsExactlyMalformed ==
    p_pc = "done" =>
        IF Rejected(term) THEN parsed = Raise("ValueError") ELSE parsed.raised = "none"

\* An input with more than three '|' (so an unlimited split gives 5 parts) is accepted.
C1_Witness ==
    /\ p_pc = "done"
    /\ p_args = Null
    /\ Cardinality(Positions(term.s, "|")) > 3
    /\ parsed.raised = "none"

\* C2: for an accepted input, entity, claim_type and scope are the first
\* three pipe-delimited segments trimmed, key is the remainder before its
\* first '=' trimmed, and value is everything after that first '=' trimmed.
C2_FieldsAreTrimmedSegments ==
    (p_pc = "done" /\ parsed.raised = "none") =>
        LET s  == term.s
            p1 == NthPos(s, "|", 1)
            p2 == NthPos(s, "|", 2)
            p3 == NthPos(s, "|", 3)
            r  == Remainder(s)
            e  == NthPos(r, "=", 1)
            f  == parsed.value
        IN  /\ IsTrimOf(f.entity, SubSeq(s, 1, p1 - 1))
            /\ IsTrimOf(f.claim_type, SubSeq(s, p1 + 1, p2 - 1))
            /\ IsTrimOf(f.scope, SubSeq(s, p2 + 1, p3 - 1))
            /\ IsTrimOf(f.key, SubSeq(r, 1, e - 1))
            /\ IsTrimOf(f.value, SubSeq(r, e + 1, Len(r)))

\* An accepted raw input whose value keeps a '|' and an '=' and whose entity was trimmed.
C2_Witness ==
    /\ p_pc = "done"
    /\ p_args = Null
    /\ parsed.raised = "none"
    /\ Positions(parsed.value.value, "|") # {}
    /\ Positions(parsed.value.value, "=") # {}
    /\ term.s[1] = " "

\* Well-formed build_claim arguments: no '|' in entity, type, scope or key,
\* no '=' in key, and no field with leading or trailing whitespace.
WellFormed(a) ==
    /\ \A f \in {a.entity, a.claim_type, a.scope, a.key} : Positions(f, "|") = {}
    /\ Positions(a.key, "=") = {}
    /\ \A f \in {a.entity, a.claim_type, a.scope, a.key, a.value} : Strip(f) = f

\* C3: parse_normalized_terms(build_claim(e, t, s, k, v)) returns exactly
\* (e, t, s, k, v) for well-formed arguments, also when v holds '|' or '='.
C3_RoundTrip ==
    (p_pc = "done" /\ p_args # Null /\ WellFormed(p_args)) => parsed = Return(p_args)

\* A well-formed round trip whose value holds both '|' and '='.
C3_Witness ==
    /\ p_pc = "done"
    /\ p_args # Null
    /\ WellFormed(p_args)
    /\ p_args.value = <<"|", "=">>
    /\ p_args.entity = <<"a">>
    /\ parsed = Return(p_args)

(***************************************************************************)
(* SpecValue: is_value_different applied to two value strings.             *)
(***************************************************************************)
NumChars == {"0", "1", ".", "-", "n", "a"}

ValuePool ==
    { <<"2", ".", "9", "3">>, <<"2", ".", "9", "3", "0">>, <<"2", ".", "9", "0">>,
      <<"0">>, <<"0", ".", "0", "0", "0", "0", "0", "0", "0", "0", "1">>,
      <<"0", ".", "0", "0", "0", "0", "0", "0", "0", "0", "2">>,
      <<"1">>, <<"1", ".", "0">>, <<"n", "a", "n">>, <<"n", "a">> }

InitValue ==
    /\ v_pc = "start"
    /\ val1 \in StringsUpTo(NumChars, MaxNumLen) \cup ValuePool
    /\ val2 \in ValuePool
    /\ v_out = Null
    /\ ParserIdle
    /\ DriftIdle
    /\ RulesIdle
    /\ NormIdle
    /\ SearchIdle
    /\ CallsIdle

\* v_out = is_value_different(val1, val2)
Compare ==
    /\ v_pc = "start"
    /\ v_out' = is_value_different(val1, val2)
    /\ v_pc' = "done"
    /\ UNCHANGED <<val1, val2, parser_vars, drift_vars, rules_vars, norm_vars, search_vars, call_vars>>

NextValue == Compare

SpecValue == InitValue /\ [][NextValue]_vars

(***************************************************************************)
(* Claims about the value comparison.                                      *)
(***************************************************************************)
\* Both strings parse as numbers and the numbers are at most 1e-9 apart.
NumbersWithinTolerance(a, b) ==
    LET fa == float(a)
        fb == float(b)
    IN  /\ fa.ok /\ fb.ok
        /\ fa.kind = "finite" /\ fb.kind = "finite"
        /\ ~AbsExceedsTolerance(FiniteDiff(fa, fb))

\* C6: is_value_different(a, b) is false exactly when a and b are the same
\* string or both parse as numbers whose absolute difference is at most 1e-9,
\* and true otherwise.
C6_FalseExactlyWhenEqualOrWithinTolerance ==
    v_pc = "done" => (v_out = FALSE <=> (val1 = val2 \/ NumbersWithinTolerance(val1, val2)))

(***************************************************************************)
(* SpecDrift: one call of detect_drift on a batch of rows.                 *)
(***************************************************************************)
Sources == {"OFFICIAL", "NEWS"}
ArticleIds == {"a1", "a2"}

\* published_at of each article.  Only differences of times enter
\* detect_drift, so a1 is the origin and a2 lies 5, 15 or 20 minutes after it;
\* a row on a1 compared with a reference on a2 gives the negative delays.

\* The rows: every well-formed term from every source and article, and one
\* malformed row (a row that fails to parse is dropped before its other
\* fields are read).
RowSet ==
    [normalized_terms : {PyStr(t) : t \in TermPool}, article_id : ArticleIds,
     source_name : Sources]
    \cup {[normalized_terms |-> PyStr(MalformedTerm), article_id |-> "a2",
           source_name |-> "NEWS"]}

RECURSIVE SeqsUpTo(_, _)
SeqsUpTo(S, n) ==
    IF n = 0 THEN {<<>>}
    ELSE LET shorter == SeqsUpTo(S, n - 1)
         IN  shorter \cup {Append(q, x) : q \in shorter, x \in S}

\* The lookups.  Only differences of times enter detect_drift and the two
\* article ids are interchangeable, so a1 is the origin and always present,
\* and a2 is missing or lies 5, 15 or 20 minutes later: a row on a2 with a
\* reference on a1 is late by that much, a row on a1 with a reference on a2 is
\* early by that much, and rows that all sit on a2 give the empty-lookup case.
Lookups ==
    {[a \in {"a1"} |-> 0]}
        \cup {[a \in ArticleIds |-> IF a = "a1" THEN 0 ELSE t] : t \in {300, 900, 1200}}

InitDrift ==
    /\ d_pc = "start"
    /\ claim_rows \in SeqsUpTo(RowSet, MaxRows)
    /\ article_lookup \in Lookups
    /\ authoritative_source = "OFFICIAL"
    /\ drift_result = Null
    /\ ParserIdle
    /\ ValueIdle
    /\ RulesIdle
    /\ NormIdle
    /\ SearchIdle
    /\ CallsIdle

\* drift_result = detect_drift(claim_rows, article_lookup, authoritative_source)
Detect ==
    /\ d_pc = "start"
    /\ drift_result' = detect_drift(claim_rows, article_lookup, authoritative_source)
    /\ d_pc' = "done"
    /\ UNCHANGED <<claim_rows, article_lookup, authoritative_source, parser_vars, value_vars,
                   rules_vars, norm_vars, search_vars, call_vars>>

NextDrift == Detect

SpecDrift == InitDrift /\ [][NextDrift]_vars

(***************************************************************************)
(* Claims about detect_drift.  i, j are indices of claim_rows; r is the    *)
(* index of the reference row of a row's group, 0 when there is none.      *)
(***************************************************************************)
RowIds == 1..Len(claim_rows)
Parses(i) == ParsedTerm[claim_rows[i].normalized_terms].raised = "none"
Fields(i) == ParsedTerm[claim_rows[i].normalized_terms].value
IsAuthoritative(i) == claim_rows[i].source_name = authoritative_source
InLookup(i) == claim_rows[i].article_id \in DOMAIN article_lookup
PublishedOf(i) == article_lookup[claim_rows[i].article_id]

\* The authoritative rows with the identity of row i.
RefRows(i) ==
    IF Parses(i)
    THEN {j \in RowIds :
            Parses(j) /\ IsAuthoritative(j) /\ Identity(Fields(j)) = Identity(Fields(i))}
    ELSE {}

\* The reference of row i's group: the first of them in the input, 0 if none.
RefOf(i) ==
    LET R == RefRows(i)
    IN  IF R = {} THEN 0 ELSE CHOOSE j \in R : \A k \in R : j <= k

\* Row i is compared with reference r, whose article is in the lookup.
Compared(i, r) == r # 0 /\ ~IsAuthoritative(i) /\ InLookup(r)
Differs(i, r) == is_value_different(Fields(i).value, Fields(r).value)
Delay(i, r) == PublishedOf(i) - PublishedOf(r)

Returned == d_pc = "done" /\ drift_result.raised = "none"
EventsOfRow(i) == SelectSeq(drift_result.value, LAMBDA e : e.row = i)
Entries(e, type) == SelectSeq(e.drifts, LAMBDA d : d.type = type)
HasEntry(events, type) == \E k \in 1..Len(events) : Entries(events[k], type) # <<>>

ValueEntry(i, r) ==
    [type |-> "VALUE_DRIFT", ref |-> Fields(r).value, observed |-> Fields(i).value]
TimeEntry(i, r) == [type |-> "TIME_DRIFT", delay_seconds |-> Delay(i, r)]

\* The events as the program holds them, without the row index.
Plain(events) ==
    [k \in 1..Len(events) |->
        [identity |-> events[k].identity, source |-> events[k].source,
         drifts |-> events[k].drifts]]

\* The rows of claim_rows whose index is in keep, in order.
RECURSIVE RowsIn(_, _)
RowsIn(keep, i) ==
    IF i > Len(claim_rows) THEN <<>>
    ELSE (IF i \in keep THEN <<claim_rows[i]>> ELSE <<>>) \o RowsIn(keep, i + 1)

\* C4: for a compared row, a VALUE_DRIFT entry is in its event exactly when
\* is_value_different says its value differs from the reference value, the
\* entry carries ref = reference value and observed = row value, and when the
\* values differ and the row is at most 900 s after the reference the row has
\* exactly one event holding exactly that one entry.
C4_ValueDriftIffDiffers ==
    d_pc = "done" =>
        /\ drift_result.raised = "none"
        /\ \A i \in RowIds :
              LET r  == RefOf(i)
                  ev == EventsOfRow(i)
              IN  Compared(i, r) =>
                    /\ HasEntry(ev, "VALUE_DRIFT") <=> Differs(i, r)
                    /\ \A k \in 1..Len(ev) :
                          Entries(ev[k], "VALUE_DRIFT") \in {<<>>, <<ValueEntry(i, r)>>}
                    /\ (Differs(i, r) /\ InLookup(i) /\ Delay(i, r) <= 900) =>
                          /\ Len(ev) = 1
                          /\ ev[1].drifts = <<ValueEntry(i, r)>>

\* Scenario A: reference 1 at t0, observed 2 five minutes later, one event
\* with one VALUE_DRIFT entry.
C4_Witness ==
    /\ Returned
    /\ Len(claim_rows) = 2
    /\ IsAuthoritative(1) /\ ~IsAuthoritative(2)
    /\ Compared(2, RefOf(2)) /\ InLookup(2) /\ Delay(2, 1) = 300
    /\ Plain(drift_result.value) =
          <<[identity |-> <<<<"M">>, <<"E">>, <<"Q">>, <<"K">>>>, source |-> "NEWS",
             drifts |-> <<[type |-> "VALUE_DRIFT", ref |-> <<"1">>, observed |-> <<"2">>]>>]>>

\* C5: for a compared row whose own article is in the lookup, a TIME_DRIFT
\* entry is emitted exactly when delta = observed - reference time exceeds 900
\* seconds and carries delay_seconds = delta; with equal values and delta =
\* 1200 the row has one event holding only that entry.
C5_TimeDriftIffOverThreshold ==
    d_pc = "done" =>
        /\ drift_result.raised = "none"
        /\ \A i \in RowIds :
              LET r  == RefOf(i)
                  ev == EventsOfRow(i)
              IN  (Compared(i, r) /\ InLookup(i)) =>
                    /\ HasEntry(ev, "TIME_DRIFT") <=> Delay(i, r) > 900
                    /\ \A k \in 1..Len(ev) :
                          Entries(ev[k], "TIME_DRIFT") \in {<<>>, <<TimeEntry(i, r)>>}
                    /\ (~Differs(i, r) /\ Delay(i, r) = 1200) =>
                          /\ Len(ev) = 1
                          /\ ev[1].drifts = <<TimeEntry(i, r)>>

\* Scenario B beside the boundary: equal values, a row 20 minutes late with a
\* lone TIME_DRIFT of 1200, in a batch where another row of the group, not
\* later than its reference, has no event.
C5_Witness ==
    /\ Returned
    /\ \E i, j \in RowIds :
          /\ Compared(i, RefOf(i)) /\ InLookup(i) /\ ~Differs(i, RefOf(i))
          /\ Delay(i, RefOf(i)) = 1200
          /\ Plain(EventsOfRow(i)) =
                <<[identity |-> <<<<"M">>, <<"E">>, <<"Q">>, <<"K">>>>, source |-> "NEWS",
                   drifts |-> <<[type |-> "TIME_DRIFT", delay_seconds |-> 1200]>>]>>
          /\ Compared(j, RefOf(j)) /\ InLookup(j) /\ EventsOfRow(j) = <<>>

\* A compared row exactly 900 seconds late without event.
C5_BoundaryReached ==
    /\ Returned
    /\ \E i \in RowIds :
          /\ Compared(i, RefOf(i)) /\ InLookup(i) /\ Delay(i, RefOf(i)) = 900
          /\ EventsOfRow(i) = <<>>

\* A compared row earlier than its reference by more than 900 seconds without event.
C5_EarlierReached ==
    /\ Returned
    /\ \E i \in RowIds :
          /\ Compared(i, RefOf(i)) /\ InLookup(i) /\ Delay(i, RefOf(i)) = -1200
          /\ EventsOfRow(i) = <<>>

\* C7 as stated: a row whose article_id is not in the lookup produces zero
\* events and no exception, whatever its source and value.
C7_MissingLookupNoEvents ==
    d_pc = "done" =>
        /\ drift_result.raised = "none"
        /\ \A i \in RowIds : ~InLookup(i) => EventsOfRow(i) = <<>>

\* C7 amended: detect_drift raises nothing, and a row whose article_id is not
\* in the lookup never gets a TIME_DRIFT entry and produces zero events,
\* unless it is a non-authoritative row whose value differs from a reference
\* that is in the lookup: then it produces one event holding only VALUE_DRIFT.
C7_MissingLookupOnlyValueDrift ==
    d_pc = "done" =>
        /\ drift_result.raised = "none"
        /\ \A i \in RowIds : ~InLookup(i) =>
              LET r  == RefOf(i)
                  ev == EventsOfRow(i)
              IN  IF Compared(i, r) /\ Differs(i, r)
                  THEN Len(ev) = 1 /\ ev[1].drifts = <<ValueEntry(i, r)>>
                  ELSE ev = <<>>

\* A batch with a missing-lookup row that yields an event next to one that yields none.
C7_Witness ==
    /\ Returned
    /\ \E i, j \in RowIds :
          /\ ~InLookup(i) /\ ~IsAuthoritative(i) /\ Len(EventsOfRow(i)) = 1
          /\ ~InLookup(j) /\ Compared(j, RefOf(j)) /\ EventsOfRow(j) = <<>>

\* The rows of the groups whose reference article is missing from the lookup.
SkippedRows == {i \in RowIds : LET r == RefOf(i) IN r # 0 /\ ~InLookup(r)}

\* C8: when the reference of a group has an article_id missing from the
\* lookup, no row of the group gets an event, nothing is raised, and the
\* result is the one detect_drift gives for the batch without those groups.
C8_MissingReferenceSkipsGroup ==
    d_pc = "done" =>
        LET skipped == SkippedRows
        IN  /\ drift_result.raised = "none"
            /\ \A i \in skipped : EventsOfRow(i) = <<>>
            /\ skipped # {} =>
                  LET others == detect_drift(RowsIn(RowIds \ skipped, 1), article_lookup,
                                             authoritative_source)
                  IN  /\ others.raised = "none"
                      /\ Plain(drift_result.value) = Plain(others.value)

\* A skipped group holding a row whose value differs and whose own article
\* is in the lookup, in a batch that returns no event.
C8_Witness ==
    /\ Returned
    /\ drift_result.value = <<>>
    /\ \E i \in SkippedRows :
          /\ ~IsAuthoritative(i) /\ InLookup(i) /\ Differs(i, RefOf(i))

\* A skipped group next to a group of another identity that yields an event.
C8_OtherGroupReached ==
    /\ Returned
    /\ SkippedRows # {}
    /\ drift_result.value # <<>>

\* C9: a compared row whose own article_id is missing from the lookup gets
\* no TIME_DRIFT entry and gets an event, holding only VALUE_DRIFT, exactly
\* when its value differs from the reference; the events of the other rows
\* are those of the batch without that row.
C9_MissingObservedSkipsTimingOnly ==
    d_pc = "done" =>
        \A i \in RowIds :
            LET r  == RefOf(i)
                ev == EventsOfRow(i)
            IN  (Compared(i, r) /\ ~InLookup(i)) =>
                    LET without == detect_drift(RowsIn(RowIds \ {i}, 1), article_lookup,
                                                authoritative_source)
                    IN  /\ ~HasEntry(ev, "TIME_DRIFT")
                        /\ HasEntry(ev, "VALUE_DRIFT") <=> Differs(i, r)
                        /\ ev # <<>> <=> Differs(i, r)
                        /\ without.raised = "none"
                        /\ Plain(SelectSeq(drift_result.value, LAMBDA e : e.row # i))
                              = Plain(without.value)

\* A row with a missing article and a differing value has its VALUE_DRIFT
\* event, followed by the event of a later row of the same batch.
C9_Witness ==
    /\ Returned
    /\ \E i, j \in RowIds :
          /\ i < j
          /\ Compared(i, RefOf(i)) /\ ~InLookup(i) /\ Differs(i, RefOf(i))
          /\ Len(EventsOfRow(i)) = 1
          /\ EventsOfRow(i)[1].drifts = <<ValueEntry(i, RefOf(i))>>
          /\ Compared(j, RefOf(j)) /\ InLookup(j) /\ EventsOfRow(j) # <<>>

\* C10: every event has a non-empty drifts list with at most one VALUE_DRIFT
\* and at most one TIME_DRIFT entry, VALUE_DRIFT first when both are there;
\* a compared row with neither drift produces no event.
C10_EventShape ==
    d_pc = "done" =>
        /\ drift_result.raised = "none"
        /\ \A k \in 1..Len(drift_result.value) :
              LET d == drift_result.value[k].drifts
              IN  /\ d # <<>>
                  /\ Len(Entries(drift_result.value[k], "VALUE_DRIFT")) <= 1
                  /\ Len(Entries(drift_result.value[k], "TIME_DRIFT")) <= 1
                  /\ \A x \in 1..Len(d) : d[x].type \in {"VALUE_DRIFT", "TIME_DRIFT"}
                  /\ \A x, y \in 1..Len(d) :
                        (d[x].type = "VALUE_DRIFT" /\ d[y].type = "TIME_DRIFT") => x < y
        /\ \A i \in RowIds :
              LET r == RefOf(i)
              IN  (/\ Compared(i, r)
                   /\ ~Differs(i, r)
                   /\ ~(InLookup(i) /\ Delay(i, r) > 900)) => EventsOfRow(i) = <<>>

\* An event with both entries, VALUE_DRIFT first, beside a compared row without event.
C10_Witness ==
    /\ Returned
    /\ \E i, j \in RowIds :
          /\ Len(EventsOfRow(i)) = 1
          /\ Len(EventsOfRow(i)[1].drifts) = 2
          /\ EventsOfRow(i)[1].drifts[1].type = "VALUE_DRIFT"
          /\ EventsOfRow(i)[1].drifts[2].type = "TIME_DRIFT"
          /\ Compared(j, RefOf(j)) /\ EventsOfRow(j) = <<>>

\* C11 as stated: the returned list holds at most one event for each pair of
\* an identity and a source.
C11_AtMostOneEventPerPair ==
    d_pc = "done" =>
        /\ drift_result.raised = "none"
        /\ \A x, y \in 1..Len(drift_result.value) :
              (/\ drift_result.value[x].identity = drift_result.value[y].identity
               /\ drift_result.value[x].source = drift_result.value[y].source) => x = y

\* The rows that parse_normalized_terms rejects.
Unparsed == {i \in RowIds : ~Parses(i)}

\* C12: detect_drift returns a list and raises nothing, and when rows of the
\* batch fail to parse the list is the one detect_drift returns for the batch
\* without these rows.
C12_MalformedRowsAreNoOps ==
    d_pc = "done" =>
        /\ drift_result.raised = "none"
        /\ Unparsed # {} =>
              LET without == detect_drift(RowsIn(RowIds \ Unparsed, 1), article_lookup,
                                          authoritative_source)
              IN  /\ without.raised = "none"
                  /\ Plain(drift_result.value) = Plain(without.value)

\* A malformed row ahead of a reference and of a row that gets an event.
C12_Witness ==
    /\ Returned
    /\ Len(claim_rows) = 3
    /\ ~Parses(1)
    /\ Parses(2) /\ IsAuthoritative(2)
    /\ Len(EventsOfRow(3)) = 1

\* C13: every event has a source other than authoritative_source and the
\* identity of its row, some authoritative row of the batch has that
\* identity, the ref of its VALUE_DRIFT entry and the reference time of its
\* TIME_DRIFT entry are those of an authoritative row with that identity, and
\* a row whose identity no authoritative row has gets no event.
C13_EventsOnlyAgainstOwnReference ==
    d_pc = "done" =>
        /\ drift_result.raised = "none"
        /\ \A k \in 1..Len(drift_result.value) :
              LET e == drift_result.value[k]
                  R == RefRows(e.row)
              IN  /\ e.source # authoritative_source
                  /\ e.source = claim_rows[e.row].source_name
                  /\ e.identity = Identity(Fields(e.row))
                  /\ R # {}
                  /\ \A x \in 1..Len(e.drifts) :
                        IF e.drifts[x].type = "VALUE_DRIFT"
                        THEN \E j \in R : e.drifts[x] = ValueEntry(e.row, j)
                        ELSE \E j \in R : InLookup(j) /\ e.drifts[x] = TimeEntry(e.row, j)
        /\ \A i \in RowIds : RefRows(i) = {} => EventsOfRow(i) = <<>>

\* A row without event because only the other identity has an authoritative
\* row, whose value differs from it, beside a row of that identity with an event.
C13_Witness ==
    /\ Returned
    /\ \E i, j, a \in RowIds :
          /\ Parses(i) /\ ~IsAuthoritative(i) /\ RefRows(i) = {} /\ EventsOfRow(i) = <<>>
          /\ Parses(a) /\ IsAuthoritative(a)
          /\ is_value_different(Fields(i).value, Fields(a).value)
          /\ RefOf(j) = a /\ Len(EventsOfRow(j)) = 1

\* The events the comparison of row i with reference r appends.
ExpectedDrifts(i, r) ==
    (IF Differs(i, r) THEN <<ValueEntry(i, r)>> ELSE <<>>)
        \o (IF InLookup(i) /\ Delay(i, r) > 900 THEN <<TimeEntry(i, r)>> ELSE <<>>)

\* C14: in a group with several authoritative rows the first of them in
\* claim_rows is the reference: a non-authoritative row of the group gets the
\* entries of its comparison with that row's value and time and no others
\* (none at all when that row's article is missing from the lookup), and no
\* authoritative row gets an event.
C14_FirstAuthoritativeRowIsReference ==
    d_pc = "done" =>
        /\ drift_result.raised = "none"
        /\ \A i \in RowIds :
              LET R  == RefRows(i)
                  r  == RefOf(i)
                  ev == EventsOfRow(i)
              IN  Cardinality(R) > 1 =>
                    IF IsAuthoritative(i) \/ ~InLookup(r) THEN ev = <<>>
                    ELSE LET d == ExpectedDrifts(i, r)
                         IN  IF d = <<>> THEN ev = <<>>
                             ELSE Len(ev) = 1 /\ ev[1].drifts = d

\* Two authoritative rows with different values and times, and a row that
\* agrees with the second in both and has an event with both drifts.
C14_Witness ==
    /\ Returned
    /\ Len(claim_rows) = 3
    /\ RefRows(3) = {1, 2}
    /\ ~IsAuthoritative(3)
    /\ Differs(2, 1) /\ ~Differs(3, 2)
    /\ claim_rows[3].article_id = claim_rows[2].article_id
    /\ Len(EventsOfRow(3)) = 1
    /\ Len(EventsOfRow(3)[1].drifts) = 2

(***************************************************************************)
(* SpecRules: one call of normalize_period, normalize_eps or               *)
(* normalize_revenue on a str.                                             *)
(***************************************************************************)
MaxRawLen == 4

Quarters == {"1", "2", "3", "4"}
Years == {<<"2", "4">>, <<"2", "0", "2", "4">>, <<"9", "9">>, <<"1", "9", "9", "9">>}

\* The four ways the docstring of normalize_period writes quarter q of year y.
PeriodForms(q, y) ==
    { <<"Q", q, " ">> \o y,
      <<"F", "Y">> \o y \o <<" ", "Q", q>>,
      y \o <<"-", "Q", q>>,
      <<"Q", q, " ", "F", "Y">> \o y }

PeriodChars == {"Q", "q", "2", "5", " ", "\n"}
PeriodInputs ==
    StringsUpTo(PeriodChars, MaxRawLen)
        \cup UNION {PeriodForms(q, y) : q \in Quarters, y \in Years}

EpsChars == {"0", "1", ".", "$", ",", " "}
EpsPool ==
    { <<"1", ".", "2", "3">>,
      <<"$", "1", ".", "2", "3">>,
      <<"E", "P", "S", " ", "$", "1", ".", "2", "3">>,
      <<"e", "p", "s", "1", ".", "2", ".", "3">>,
      <<"1", ",", "2", "3", "4", ".", "5">>,
      <<"$", " ", "1", ".", "5">>,
      <<"0", "1", ".", "5", "0">>,
      <<"0", ".", "0", "0", "0", "0", "0", "0", "1">>,
      <<"0", ".", "0", "0", "0", "0", "0", "0", "0">>,
      <<"-", "1">>,
      <<"a", "b", "c">>,
      <<"E", "P", "S", " ", "1", ".", "5", " ", "a", "n", "d", " ", "2">>,
      <<"x", " ", "E", "P", "S", " ", " ", "$", "2", ".", "9", ".">>,
      <<"2", ".", "9", "3">> }
EpsInputs == StringsUpTo(EpsChars, MaxRawLen) \cup EpsPool

RevenueChars == {"0", "5", ",", ".", "B", "m", " "}
RevenuePool ==
    { <<"$", "1", ".", "5", "B">>,
      <<"1", ".", "5", " ", "b", "i", "l", "l", "i", "o", "n">>,
      <<"$", "5", "0", "0", "M">>,
      <<"5", "0", "0", " ", "m", "i", "l", "l", "i", "o", "n">>,
      <<"1", ",", "2", "3", "4", ".", "5", "M">>,
      <<"0", ".", "0", "0", "0", "0", "0", "0", "0", "0", "1", "9", "B">>,
      <<"1", ".", "0", "0", "0", "0", "0", "0", "5", "M">>,
      <<"R", "e", "v", "e", "n", "u", "e", " ", "g", "r", "e", "w", ",", " ", "b", "e", "a", "t", "i", "n", "g", " ", "e", "s", "t", "i", "m", "a", "t", "e", "s", " ", "a", "t", " ", "$", "5", "B">>,
      <<"$", "1", "5", "0", "0", "0", "0", "0", "0", "0", "0">> }
RevenueInputs == StringsUpTo(RevenueChars, MaxRawLen) \cup RevenuePool

InitRules ==
    /\ r_pc = "start"
    /\ \/ r_fn = "normalize_period" /\ r_arg \in PeriodInputs
       \/ r_fn = "normalize_eps" /\ r_arg \in EpsInputs
       \/ r_fn = "normalize_revenue" /\ r_arg \in RevenueInputs
    /\ r_out = Null
    /\ ParserIdle
    /\ ValueIdle
    /\ DriftIdle
    /\ NormIdle
    /\ SearchIdle
    /\ CallsIdle

\* r_out = normalize_period(r_arg)
NormalizePeriod ==
    /\ r_pc = "start"
    /\ r_fn = "normalize_period"
    /\ r_out' = normalize_period(r_arg)
    /\ r_pc' = "done"
    /\ UNCHANGED <<r_fn, r_arg, parser_vars, value_vars, drift_vars, norm_vars, search_vars, call_vars>>

\* r_out = normalize_eps(r_arg)
NormalizeEps ==
    /\ r_pc = "start"
    /\ r_fn = "normalize_eps"
    /\ r_out' = normalize_eps(PyStr(r_arg))
    /\ r_pc' = "done"
    /\ UNCHANGED <<r_fn, r_arg, parser_vars, value_vars, drift_vars, norm_vars, search_vars, call_vars>>

\* r_out = normalize_revenue(r_arg)
NormalizeRevenue ==
    /\ r_pc = "start"
    /\ r_fn = "normalize_revenue"
    /\ r_out' = normalize_revenue(PyStr(r_arg))
    /\ r_pc' = "done"
    /\ UNCHANGED <<r_fn, r_arg, parser_vars, value_vars, drift_vars, norm_vars, search_vars, call_vars>>

NextRules == NormalizePeriod \/ NormalizeEps \/ NormalizeRevenue

SpecRules == InitRules /\ [][NextRules]_vars

(***************************************************************************)
(* Claims about rules.py.                                                  *)
(***************************************************************************)
\* What C17 says quarter q of year y normalizes to.
PeriodOf(q, y) ==
    <<"F", "Y">> \o (IF Len(y) = 2 THEN <<"2", "0">> \o y ELSE y) \o <<"-", "Q", q>>

\* C17 as stated: normalize_period maps "Q2 2024", "FY24 Q2", "2024-Q2" and
\* "Q2 FY24" to "FY2024-Q2", and each of these four forms of a quarter n
\* with a year of 2 digits YY to FY20YY-Qn and of 4 digits YYYY to FYYYYY-Qn.
C17_PeriodNormalization ==
    (r_pc = "done" /\ r_fn = "normalize_period") =>
        /\ r_arg \in { <<"Q", "2", " ", "2", "0", "2", "4">>,
                       <<"F", "Y", "2", "4", " ", "Q", "2">>,
                       <<"2", "0", "2", "4", "-", "Q", "2">>,
                       <<"Q", "2", " ", "F", "Y", "2", "4">> }
              => r_out = Return(<<"F", "Y", "2", "0", "2", "4", "-", "Q", "2">>)
        /\ \A q \in Quarters, y \in Years :
              r_arg \in PeriodForms(q, y) => r_out = Return(PeriodOf(q, y))

\* x is a number as the revenue pattern writes it: digits and commas, then
\* optionally '.' and digits, with at least one digit in it.
IsNumeral(x) ==
    /\ \E i \in 1..Len(x) : x[i] \in Digits
    /\ \E k \in 1..Len(x) :
          /\ \A i \in 1..k : x[i] \in Digits \cup {","}
          /\ k = Len(x) \/ (x[k + 1] = "." /\ \A i \in (k + 2)..Len(x) : x[i] \in Digits)

\* s[n..e-1] is a number, followed by whitespace up to the unit letter s[u].
NumberUnitAt(s, n, e, u) ==
    /\ 1 <= n /\ n < e /\ e <= u /\ u <= Len(s)
    /\ IsNumeral(SubSeq(s, n, e - 1))
    /\ \A i \in e..(u - 1) : s[i] \in Whitespace
    /\ s[u] \in UnitLetters

HasNumberUnit(s) == \E n, e, u \in 1..Len(s) : NumberUnitAt(s, n, e, u)

\* The first number of s that a unit follows, at its full length: <<n, e, u>>.
FirstNumberUnit(s) ==
    CHOOSE t \in (1..Len(s)) \X (1..Len(s)) \X (1..Len(s)) :
        /\ NumberUnitAt(s, t[1], t[2], t[3])
        /\ \A n, e, u \in 1..Len(s) : NumberUnitAt(s, n, e, u) => t[1] <= n

\* The digits ds of an int as <<ds div 10^9, ds mod 10^9>>.
Limbs(ds) ==
    IF Len(ds) <= 9 THEN <<0, DigitsValue(ds)>>
    ELSE <<DigitsValue(SubSeq(ds, 1, Len(ds) - 9)),
           DigitsValue(SubSeq(ds, Len(ds) - 8, Len(ds)))>>

\* The number x (commas allowed) times 10^9 or 10^6, cut to an integer, as
\* <<result div 10^9, result mod 10^9>>.
ScaledNumber(x, unit) ==
    LET t   == SelectSeq(x, LAMBDA c : c # ",")
        dot == Find(t, ".")
        ip  == DigitsValue(IF dot = 0 THEN t ELSE SubSeq(t, 1, dot - 1))
        fp  == FracNanos(IF dot = 0 THEN <<>> ELSE SubSeq(t, dot + 1, Len(t)))
    IN  IF unit \in {"B", "b"} THEN <<ip, fp>>
        ELSE <<ip \div 1000, (ip % 1000) * 1000000 + fp \div 1000>>

\* C18 as stated: for an input that holds a number followed by a unit,
\* normalize_revenue returns the number, commas stripped, times 10^9 for B
\* and 10^6 for M in either case, cut to a non-negative integer; an input
\* without a number followed by a unit is rejected with ValueError.
C18_RevenueScaledAndTruncated ==
    (r_pc = "done" /\ r_fn = "normalize_revenue") =>
        IF HasNumberUnit(r_arg)
        THEN LET t == FirstNumberUnit(r_arg)
             IN  /\ r_out.raised = "none"
                 /\ IsDigits(r_out.value)
                 /\ Limbs(r_out.value)
                       = ScaledNumber(SubSeq(r_arg, t[1], t[2] - 1), r_arg[t[3]])
        ELSE r_out = Raise("ValueError")

(***************************************************************************)
(* SpecNormalize: one call of normalize_article on an article row.  The    *)
(* title is text or NULL; eps and revenue are text, NULL, a number or      *)
(* another object (such as a Decimal).                                     *)
(***************************************************************************)
Institutions ==
    {PyStr(<<"M">>), PyStr(<<"A", "|", "B">>), PyStr(<<"A", "=", "B">>), PyStr(<<" ", "M">>),
     PyStr(<<>>), None}

TitlePool ==
    { <<"Q", "2", " ", "F", "Y", "2", "4", " ", "E", "a", "r", "n", "i", "n", "g", "s">>,
      <<"E", "A", "R", "N", "I", "N", "G", "S", " ", "c", "a", "l", "l">>,
      <<"T", "r", "a", "d", "i", "n", "g", " ", "H", "a", "l", "t">>,
      <<"E", "a", "r", "n", "i", "n", "g", "s", " ", "Q", "1", " ", "2", "5", " ", "t", "r", "a", "d", "i", "n", "g", " ", "h", "a", "l", "t">>,
      <<"h", "a", "l", "t", " ", "t", "r", "a", "d", "i", "n", "g">>,
      <<"e", "a", "r", "n", "i", "n", "g", " ", "Q", "1", " ", "2", "5">>,
      <<"Q", "1", " ", "2", "5", " ", "T", "r", "a", "d", "i", "n", "g", " ", "h", "a", "l", "t", "e", "d">> }
Titles == {PyStr(t) : t \in TitlePool} \cup {PyStr(<<>>), None}

EpsValues ==
    { None, PyStr(<<"2", ".", "9", "3">>), PyStr(<<"E", "P", "S", " ", "$", "1", ".", "2", "3">>),
      PyStr(<<"a", "b", "c">>), PyNum(<<"2", ".", "9">>, TRUE), PyNum(<<"0">>, FALSE),
      PyOther(TRUE) }

RevenueValues ==
    { None, PyStr(<<"$", "1", ".", "5", "B">>),
      PyStr(<<"5", "0", "0", " ", "m", "i", "l", "l", "i", "o", "n">>),
      PyStr(<<"n", "/", "a">>), PyNum(<<"1", "5", "0", "0">>, TRUE), PyOther(TRUE) }

Articles ==
    {PyDict(i, t, e, r) : i \in Institutions, t \in Titles, e \in EpsValues,
                          r \in RevenueValues}
        \cup {None, PyOther(TRUE)}

InitNormalize ==
    /\ n_pc = "start"
    /\ article \in Articles
    /\ n_out = Null
    /\ ParserIdle
    /\ ValueIdle
    /\ DriftIdle
    /\ RulesIdle
    /\ SearchIdle
    /\ CallsIdle

\* n_out = normalize_article(article)
Normalize ==
    /\ n_pc = "start"
    /\ n_out' = normalize_article(article)
    /\ n_pc' = "done"
    /\ UNCHANGED <<article, parser_vars, value_vars, drift_vars, rules_vars, search_vars,
                   call_vars>>

NextNormalize == Normalize

SpecNormalize == InitNormalize /\ [][NextNormalize]_vars

(***************************************************************************)
(* Claims about normalize_article.                                         *)
(***************************************************************************)
\* s holds word in upper, lower or mixed case; word is given in lower case.
HoldsWord(s, word) ==
    \E i \in 0..(Len(s) - Len(word)) :
        \A k \in 1..Len(word) :
            \/ s[i + k] = word[k]
            \/ \E u \in 1..26 : LowerCase[u] = word[k] /\ UpperCase[u] = s[i + k]

\* The article is a dict with an institution, so that its title is classified.
Classified == n_pc = "done" /\ article.type = "dict" /\ Truthy(article.institution)
TitleText == IF Truthy(article.title) THEN article.title.s ELSE <<>>
IsEarnings == HoldsWord(TitleText, <<"e", "a", "r", "n", "i", "n", "g", "s">>)
IsHalt ==
    /\ ~IsEarnings
    /\ HoldsWord(TitleText, <<"t", "r", "a", "d", "i", "n", "g", " ", "h", "a", "l", "t">>)

StartsWith(s, prefix) == Len(s) >= Len(prefix) /\ SubSeq(s, 1, Len(prefix)) = prefix

\* C15: a title holding "earnings" in any case gives claims of type EARNINGS
\* only, also when it holds "trading halt"; otherwise a title holding
\* "trading halt" gives claims of type HALT only, and at least one; any other
\* title gives the empty list; nothing is raised.
C15_ClassificationByTitle ==
    Classified =>
        /\ n_out.raised = "none"
        /\ IF IsEarnings
           THEN \A k \in 1..Len(n_out.value) :
                   StartsWith(n_out.value[k], article.institution.s \o <<"|">> \o EARNINGS \o <<"|">>)
           ELSE IF IsHalt
           THEN /\ n_out.value # <<>>
                /\ \A k \in 1..Len(n_out.value) :
                      StartsWith(n_out.value[k], article.institution.s \o <<"|">> \o HALT \o <<"|">>)
           ELSE n_out.value = <<>>

\* A title holding both words, in mixed case, with EARNINGS claims emitted.
C15_Witness ==
    /\ Classified
    /\ IsEarnings
    /\ HoldsWord(TitleText, <<"t", "r", "a", "d", "i", "n", "g", " ", "h", "a", "l", "t">>)
    /\ TitleText # Lower(TitleText)
    /\ Len(n_out.value) = 2

\* An ineligible title with an EPS and a revenue that would both normalize.
C15_IneligibleReached ==
    /\ Classified
    /\ ~IsEarnings /\ ~IsHalt
    /\ TitleText # <<>>
    /\ article.eps = PyStr(<<"2", ".", "9", "3">>)
    /\ article.revenue = PyStr(<<"$", "1", ".", "5", "B">>)
    /\ n_out = Return(<<>>)

\* The text normalize_eps and normalize_revenue are handed for a field.
EpsText == IF article.eps.type = "num" THEN PyStr(article.eps.s) ELSE article.eps
RevenueText ==
    IF article.revenue.type = "num" THEN PyStr(<<"$">> \o article.revenue.s)
    ELSE article.revenue

\* A field that is there and from which no value can be extracted, and one
\* from which a value is extracted.
EpsMalformed == Truthy(article.eps) /\ normalize_eps(EpsText).raised # "none"
EpsValid == Truthy(article.eps) /\ normalize_eps(EpsText).raised = "none"
RevenueMalformed == Truthy(article.revenue) /\ normalize_revenue(RevenueText).raised # "none"
RevenueValid == Truthy(article.revenue) /\ normalize_revenue(RevenueText).raised = "none"

ClaimString(scope, key, value) ==
    article.institution.s \o <<"|">> \o EARNINGS \o <<"|">> \o scope \o <<"|">> \o key
        \o <<"=">> \o value

\* C16: normalize_article never raises; for an EARNINGS title without an
\* extractable period the result is empty whatever eps and revenue are; with
\* a period, a malformed EPS beside a valid revenue leaves exactly the
\* revenue claim, and a malformed revenue beside a valid EPS exactly the EPS
\* claim.
C16_ExtractionFailuresAreLocal ==
    n_pc = "done" =>
        /\ n_out.raised = "none"
        /\ (Classified /\ IsEarnings) =>
              LET period == normalize_period(TitleText)
              IN  IF period.raised # "none" THEN n_out.value = <<>>
                  ELSE /\ (EpsMalformed /\ RevenueValid) =>
                             n_out.value =
                                <<ClaimString(period.value, REVENUE_USD,
                                              normalize_revenue(RevenueText).value)>>
                       /\ (RevenueMalformed /\ EpsValid) =>
                             n_out.value =
                                <<ClaimString(period.value, EPS,
                                              DecimalStr(normalize_eps(EpsText).value))>>

\* A malformed EPS text beside a valid revenue: the revenue claim alone.
C16_Witness ==
    /\ Classified /\ IsEarnings
    /\ article.institution = PyStr(<<"M">>)
    /\ article.eps = PyStr(<<"a", "b", "c">>)
    /\ RevenueValid
    /\ n_out = Return(<<<<"M", "|", "E", "A", "R", "N", "I", "N", "G", "S", "|",
                          "F", "Y", "2", "0", "2", "4", "-", "Q", "2", "|",
                          "R", "E", "V", "E", "N", "U", "E", "_", "U", "S", "D", "=",
                          "1", "5", "0", "0", "0", "0", "0", "0", "0", "0">>>>)

\* An EARNINGS title without period, with a valid EPS and revenue, gives nothing.
C16_NoPeriodReached ==
    /\ Classified /\ IsEarnings
    /\ normalize_period(TitleText).raised = "ValueError"
    /\ EpsValid /\ RevenueValid
    /\ n_out = Return(<<>>)

\* A revenue that is not text beside a valid EPS: the EPS claim alone.
C16_EpsAloneReached ==
    /\ Classified /\ IsEarnings
    /\ article.revenue = PyOther(TRUE)
    /\ EpsValid
    /\ Len(n_out.value) = 1

\* C19: for a title classified HALT the result is the one claim
\* institution|HALT|NASDAQ|STATUS=HALTED, whatever eps and revenue are.
C19_HaltEmitsExactlyOneClaim ==
    (Classified /\ IsHalt) =>
        n_out = Return(<<article.institution.s
                            \o <<"|", "H", "A", "L", "T", "|", "N", "A", "S", "D", "A", "Q", "|",
                                 "S", "T", "A", "T", "U", "S", "=", "H", "A", "L", "T", "E", "D">>>>)

\* A HALT title that holds a period, with a valid EPS and revenue.
C19_Witness ==
    /\ Classified /\ IsHalt
    /\ normalize_period(TitleText).raised = "none"
    /\ EpsValid /\ RevenueValid
    /\ Len(n_out.value) = 1

\* The claim string c parses back to the fields build_claim was given for
\* the institution of the article.
ParsesBack(c) ==
    LET p == parse_normalized_terms(PyStr(c))
    IN  /\ p.raised = "none"
        /\ p.value.entity = article.institution.s
        /\ p.value.claim_type \in {EARNINGS, HALT}
        /\ p.value.key \in {EPS, REVENUE_USD, STATUS}
        /\ p.value.claim_type = HALT =>
               p.value.scope = NASDAQ /\ p.value.key = STATUS /\ p.value.value = HALTED
        /\ p.value.claim_type = EARNINGS =>
               /\ p.value.key \in {EPS, REVENUE_USD}
               /\ normalize_period(TitleText) = Return(p.value.scope)
        /\ c = build_claim(p.value.entity, p.value.claim_type, p.value.scope,
                           p.value.key, p.value.value)

\* C28: every claim string normalize_article emits parses back to the
\* institution, claim type, scope, key and value it was built from, and an
\* article yields at most two claims, EPS before REVENUE_USD.
C28_ClaimsRoundTrip ==
    (n_pc = "done" /\ n_out.raised = "none") =>
        /\ Len(n_out.value) <= 2
        /\ \A k \in DOMAIN n_out.value : ParsesBack(n_out.value[k])
        /\ Len(n_out.value) = 2 =>
               /\ parse_normalized_terms(PyStr(n_out.value[1])).value.key = EPS
               /\ parse_normalized_terms(PyStr(n_out.value[2])).value.key = REVENUE_USD

(***************************************************************************)
(* ingestion/normalizer.py: normalize and has_negation.                    *)
(***************************************************************************)
STOPWORDS ==
    { <<"t", "h", "e">>, <<"i", "s">>, <<"a">>, <<"a", "n">>, <<"t", "o">>,
      <<"o", "f">>, <<"a", "n", "d">>, <<"i", "n">>, <<"o", "n">>,
      <<"f", "o", "r">>, <<"w", "i", "t", "h">>, <<"a", "t">>, <<"b", "y">> }

NEGATION_WORDS ==
    { <<"n", "o", "t">>, <<"n", "o">>, <<"n", "e", "v", "e", "r">>,
      <<"u", "n", "l", "i", "k", "e", "l", "y">>,
      <<"w", "i", "t", "h", "o", "u", "t">>, <<"a", "v", "o", "i", "d">>,
      <<"f", "a", "i", "l">> }

LowerLetters == {LowerCase[k] : k \in 1..26}

\* re.findall(r"[a-z]+", s) from index i on: the maximal runs of lower-case
\* letters, in the order they appear
RECURSIVE FindWords(_, _)
FindWords(s, i) ==
    IF i > Len(s) THEN <<>>
    ELSE IF s[i] \notin LowerLetters THEN FindWords(s, i + 1)
    ELSE LET j == RunEnd(s, i, LowerLetters)
         IN  <<SubSeq(s, i, j - 1)>> \o FindWords(s, j)

\* (text or "").lower()
LowerText(text) == Lower(IF Truthy(text) THEN text.s ELSE <<>>)

\* a < b for two strings of lower-case letters
WordLess(a, b) ==
    \E i \in 1..Len(b) :
        /\ i <= Len(a) + 1
        /\ SubSeq(a, 1, i - 1) = SubSeq(b, 1, i - 1)
        /\ \/ i = Len(a) + 1
           \/ (CHOOSE k \in 1..26 : LowerCase[k] = a[i])
                < (CHOOSE k \in 1..26 : LowerCase[k] = b[i])

\* " ".join(sorted(words)) for a set of words
RECURSIVE JoinSorted(_)
JoinSorted(words) ==
    IF words = {} THEN <<>>
    ELSE LET first == CHOOSE w \in words : \A v \in words \ {w} : WordLess(w, v)
             rest  == words \ {first}
         IN  IF rest = {} THEN first ELSE first \o <<" ">> \o JoinSorted(rest)

normalize(text) ==
    LET tokens == FindWords(LowerText(text), 1)
        kept   == {tokens[i] : i \in DOMAIN tokens} \ STOPWORDS
    IN  PyStr(JoinSorted(kept))

has_negation(text) ==
    LET tokens == FindWords(LowerText(text), 1)
        words  == {tokens[i] : i \in DOMAIN tokens}
    IN  words \cap NEGATION_WORDS # {}

(***************************************************************************)
(* ingestion/search.py.  An embedding is a unit vector whose components    *)
(* are counted in quarters; a similarity is counted in units of 1/1600,    *)
(* so that 0.75 is 1200, 0.88 is 1408 and 1.0 is 1600.                     *)
(***************************************************************************)
PyList(v) == [type |-> "list", v |-> v, truthy |-> v # <<>>]
Datetime(t) == [type |-> "datetime", t |-> t, truthy |-> TRUE]

RECURSIVE Dot(_, _)
Dot(a, b) ==
    IF a = <<>> \/ b = <<>> THEN 0
    ELSE a[1] * b[1] + Dot(Tail(a), Tail(b))

\* float(np.dot(a, b)): sixteenths, counted in 1/1600
cosine_sim(a, b) == 100 * Dot(a, b)

\* SELECT COUNT(*) FROM sources WHERE status = 'active'
SQL_ACTIVE_TOTAL(d) ==
    Cardinality({i \in DOMAIN d.sources : d.sources[i].status = "active"})

\* SELECT normalized_terms, embedding FROM claims WHERE embedding IS NOT NULL
SQL_ALL_CLAIM_EMBEDS(d) ==
    SelectSeq(d.claims, LAMBDA c : c.embedding # None)

\* claims JOIN articles JOIN sources WHERE normalized_terms = terms AND
\* status = 'active': the joined rows, as <<claim, article, source>> indexes
ActiveJoin(d, terms) ==
    { j \in (DOMAIN d.claims) \X (DOMAIN d.articles) \X (DOMAIN d.sources) :
        /\ d.articles[j[2]].article_id = d.claims[j[1]].article_id
        /\ d.sources[j[3]].source_id = d.articles[j[2]].source_id
        /\ d.claims[j[1]].normalized_terms = terms
        /\ d.sources[j[3]].status = "active" }

\* Mutant: the quotient is cut after the third decimal.
Round3_truncated(n, total) == (1000 * n) \div total

\* ROUND(n / total, 3) for numeric n >= 0, total > 0, in thousandths
Round3(n, total) == (2000 * n + total) \div (2 * total)

\* Mutant: COUNT(*) in place of COUNT(DISTINCT a.source_id).
SQL_SUPPORT_ACTIVE_per_article(d, terms) ==
    LET sources_supporting == Cardinality(ActiveJoin(d, terms))
        total_sources == SQL_ACTIVE_TOTAL(d)
    IN  [sources_supporting |-> sources_supporting,
         total_sources |-> total_sources,
         support_ratio |-> IF total_sources = 0 THEN 0
                           ELSE Round3(sources_supporting, total_sources)]

SQL_SUPPORT_ACTIVE(d, terms) ==
    LET sources_supporting ==
            Cardinality({d.articles[j[2]].source_id : j \in ActiveJoin(d, terms)})
        total_sources == SQL_ACTIVE_TOTAL(d)
    IN  [sources_supporting |-> sources_supporting,
         total_sources |-> total_sources,
         support_ratio |-> IF total_sources = 0 THEN 0
                           ELSE Round3(sources_supporting, total_sources)]

\* ORDER BY published_at DESC: a NULL sorts as larger than every value, so
\* it comes first; the order of rows with equal keys is not determined
DescOrdered(x, y) ==
    \/ x = None
    \/ y # None /\ x.t >= y.t

\* The results SQL_EVIDENCE_ACTIVE can give: every ordering of the joined
\* rows that ORDER BY allows
SQL_EVIDENCE_ACTIVE(d, terms) ==
    LET J == ActiveJoin(d, terms)
        n == Cardinality(J)
        orders == { f \in [1..n -> J] :
                      /\ \A i, k \in 1..n : i # k => f[i] # f[k]
                      /\ \A i, k \in 1..n : i < k =>
                            DescOrdered(d.articles[f[i][2]].published_at,
                                        d.articles[f[k][2]].published_at) }
    IN  { [i \in 1..n |->
              [source_name |-> d.sources[f[i][3]].source_name,
               institution |-> d.articles[f[i][2]].institution,
               title |-> d.articles[f[i][2]].title,
               url |-> d.articles[f[i][2]].url,
               published_at |-> d.articles[f[i][2]].published_at]] : f \in orders }

\* The loop of find_best_semantic_match over rows[i..]
RECURSIVE BestOver(_, _, _, _, _)
BestOver(rows, i, vec, best_claim, best_score) ==
    IF i > Len(rows) THEN [best_claim |-> best_claim, best_score |-> best_score]
    ELSE IF ~Truthy(rows[i].embedding)
         THEN BestOver(rows, i + 1, vec, best_claim, best_score)
    ELSE LET score == cosine_sim(vec, rows[i].embedding.v)
         IN  IF score > best_score
             THEN BestOver(rows, i + 1, vec, rows[i].normalized_terms, score)
             ELSE BestOver(rows, i + 1, vec, best_claim, best_score)

NoCandidate == [claim |-> None, score |-> None]

\* Mutant: the rows are scanned from the last to the first.
find_best_scan_reversed(d, vec, min_sim) ==
    LET all  == SQL_ALL_CLAIM_EMBEDS(d)
        rows == [i \in 1..Len(all) |-> all[Len(all) + 1 - i]]
        b    == BestOver(rows, 1, vec, None, -1600)
    IN  IF b.best_claim = None \/ b.best_score < min_sim THEN NoCandidate
        ELSE [claim |-> b.best_claim, score |-> b.best_score]

\* vec is embed(user_input)
find_best_semantic_match(d, vec, min_sim) ==
    LET rows == SQL_ALL_CLAIM_EMBEDS(d)
        b    == BestOver(rows, 1, vec, None, -1600)
    IN  IF b.best_claim = None \/ b.best_score < min_sim THEN NoCandidate
        ELSE [claim |-> b.best_claim, score |-> b.best_score]

\* round(x, 4), in units of 1/10000
Round4(x) == (25 * x + 2) \div 4

\* published_at.isoformat() if published_at else None
IsoFormat(published_at) ==
    IF Truthy(published_at) THEN [isoformat |-> published_at.t] ELSE None

\* The results search_grouped can give; m is what find_best_semantic_match
\* returned
search_grouped(d, input, m, min_sim) ==
    LET normalized_input == normalize(input)
        total_active_sources == SQL_ACTIVE_TOTAL(d)
        matched_claim == m.claim
        best_sim == m.score
        NotFound(message) ==
            [user_input |-> input,
             normalized_input |-> normalized_input,
             match_found |-> FALSE,
             message |-> message,
             evidence |-> <<>>,
             sources_supporting |-> 0,
             total_sources |-> total_active_sources,
             support_ratio |-> 0]
    IN  IF ~Truthy(matched_claim)
        THEN { NotFound(<<"No semantic match found with similarity >= ", min_sim>>) }
        ELSE LET negation_conflict ==
                     has_negation(input) # has_negation(matched_claim)
             IN  IF negation_conflict /\ best_sim < 1408
                 THEN { NotFound(<<"Possible contradiction detected (negation mismatch). No strong semantic match found.">>) }
                 ELSE LET support == SQL_SUPPORT_ACTIVE(d, matched_claim)
                      IN  { [user_input |-> input,
                             normalized_input |-> normalized_input,
                             match_found |-> TRUE,
                             matched_claim |-> matched_claim,
                             best_similarity |-> Round4(best_sim),
                             negation_conflict |-> negation_conflict,
                             sources_supporting |-> support.sources_supporting,
                             total_sources |-> support.total_sources,
                             support_ratio |-> support.support_ratio,
                             evidence |->
                                 [i \in DOMAIN evidence_rows |->
                                     [source_name |-> evidence_rows[i].source_name,
                                      institution |-> evidence_rows[i].institution,
                                      title |-> evidence_rows[i].title,
                                      url |-> evidence_rows[i].url,
                                      published_at |->
                                          IsoFormat(evidence_rows[i].published_at)]]]
                            : evidence_rows \in SQL_EVIDENCE_ACTIVE(d, matched_claim) }

(***************************************************************************)
(* The search: one call of search_grouped on a database of stored claims.  *)
(***************************************************************************)
MaxClaims == 2

\* Unit vectors, in quarters
E1 == <<4, 0, 0, 0, 0>>
VA == <<3, 2, 1, 1, 1>>
VB == <<3, 1, 2, 1, 1>>
VC == <<2, 2, 2, 2, 0>>

\* What the claims table holds in normalized_terms: normalize(title or "")
StoredTerms ==
    { PyStr(<<"t", "e", "s", "l", "a", " ", "u", "p">>),
      PyStr(<<"n", "o", "t", " ", "t", "e", "s", "l", "a", " ", "u", "p">>),
      PyStr(<<>>) }

\* What the claims table holds in embedding: NULL, an empty array or a vector
StoredEmbeddings == {None, PyList(<<>>), PyList(VA), PyList(VB), PyList(VC)}

UserInputs ==
    { PyStr(<<"T", "e", "s", "l", "a", " ", "u", "p">>),
      PyStr(<<"T", "e", "s", "l", "a", " ", "i", "s", " ", "N", "O", "T", " ", "u", "p">>) }

\* 0.75, the default, and 0.875
MinSimilarities == {1200, 1400}

SourceStatuses == {<<"active", "active">>, <<"active", "offline">>}

\* The tables: two sources, and one article per claim, from the two sources
\* in turn; the second article has no published_at
Database(rows, statuses) ==
    [sources |->
        <<[source_id |-> 1, source_name |-> "Finnhub", status |-> statuses[1]],
          [source_id |-> 2, source_name |-> "YFinance", status |-> statuses[2]]>>,
     articles |->
        [k \in 1..Len(rows) |->
            [article_id |-> k,
             source_id |-> IF k % 2 = 1 THEN 1 ELSE 2,
             institution |-> "TSLA",
             title |-> k,
             url |-> k,
             published_at |-> IF k = 2 THEN None ELSE Datetime(1)]],
     claims |->
        [k \in 1..Len(rows) |->
            [claim_id |-> k,
             article_id |-> k,
             normalized_terms |-> rows[k][1],
             embedding |-> rows[k][2]]]]

Databases ==
    { Database(rows, statuses) :
        rows \in SeqsUpTo(StoredTerms \X StoredEmbeddings, MaxClaims),
        statuses \in SourceStatuses }

InitSearch ==
    /\ s_pc = "start"
    /\ db \in Databases
    /\ user_input \in UserInputs
    /\ user_vec \in {E1, VA}
    /\ min_similarity \in MinSimilarities
    /\ s_match = Null
    /\ s_out = Null
    /\ ParserIdle
    /\ ValueIdle
    /\ DriftIdle
    /\ RulesIdle
    /\ NormIdle
    /\ CallsIdle

\* s_out = search_grouped(user_input, min_similarity)
Search ==
    /\ s_pc = "start"
    /\ s_match' = find_best_semantic_match(db, user_vec, min_similarity)
    /\ s_out' \in search_grouped(db, user_input, s_match', min_similarity)
    /\ s_pc' = "done"
    /\ UNCHANGED <<db, user_input, user_vec, min_similarity, parser_vars,
                   value_vars, drift_vars, rules_vars, norm_vars, call_vars>>

NextSearch == Search

SpecSearch == InitSearch /\ [][NextSearch]_vars

(***************************************************************************)
(* Claims about the search.                                                *)
(***************************************************************************)
\* The similarities of the query with the stored claims that have a
\* non-empty embedding
Similarities ==
    { cosine_sim(user_vec, db.claims[k].embedding.v) :
        k \in {i \in DOMAIN db.claims : Truthy(db.claims[i].embedding)} }

BestSimilarity == CHOOSE x \in Similarities : \A y \in Similarities : y <= x

\* The query and the candidate differ in negation and the candidate's
\* similarity is below 0.88
Downgraded ==
    /\ has_negation(user_input) # has_negation(s_match.claim)
    /\ s_match.score < 1408

\* C20: a search whose best similarity over the stored claims is
\* min_similarity or more is reported as a match (unless it is downgraded
\* for a negation conflict), one whose best similarity is strictly below
\* min_similarity is reported as no match, and so is a search over a
\* database without stored embeddings.
C20_ThresholdBoundary ==
    s_pc = "done" =>
        /\ Similarities = {} => ~s_out.match_found
        /\ Similarities # {} /\ BestSimilarity < min_similarity =>
               ~s_out.match_found
        /\ Similarities # {} /\ BestSimilarity >= min_similarity =>
               /\ s_match.claim # None
               /\ s_match.score = BestSimilarity
               /\ ~Downgraded => s_out.match_found

\* text holds a word of the negation vocabulary: the word stands in the
\* lower-cased text with no letter before it and none after it
MentionsNegation(text) ==
    LET t == LowerText(text)
    IN  \E w \in NEGATION_WORDS :
            \E i \in 1..(Len(t) - Len(w) + 1) :
                /\ SubSeq(t, i, i + Len(w) - 1) = w
                /\ i = 1 \/ t[i - 1] \notin LowerLetters
                /\ i + Len(w) > Len(t) \/ t[i + Len(w)] \notin LowerLetters

\* C21: a candidate at or above min_similarity is reported as no match
\* exactly when one of the query and the candidate's text holds a negation
\* word, the other does not, and the similarity is below 0.88; a candidate
\* reported as a match carries negation_conflict = TRUE exactly when the two
\* differ in negation.
C21_NegationEscalation ==
    s_pc = "done" /\ s_match.claim # None =>
        LET conflict ==
                MentionsNegation(user_input) # MentionsNegation(s_match.claim)
        IN  /\ ~s_out.match_found <=> (conflict /\ s_match.score < 1408)
            /\ s_out.match_found => s_out.negation_conflict = conflict

\* The stored claims find_best_semantic_match scores, by their place in the
\* scan, and the similarity of each
ScoredRows == {k \in DOMAIN db.claims : Truthy(db.claims[k].embedding)}
SimilarityOf(k) == cosine_sim(user_vec, db.claims[k].embedding.v)

\* C22: the claim find_best_semantic_match returns is the first one in the
\* scan among the stored claims of highest similarity, and no stored claim
\* with a non-empty embedding has a higher similarity than the returned one.
C22_BestMatchFirstSeen ==
    s_pc = "done" /\ s_match.claim # None =>
        LET first == CHOOSE k \in ScoredRows :
                        /\ SimilarityOf(k) = BestSimilarity
                        /\ \A j \in ScoredRows :
                              SimilarityOf(j) = BestSimilarity => k <= j
        IN  /\ \A k \in ScoredRows : SimilarityOf(k) <= s_match.score
            /\ s_match.score = SimilarityOf(first)
            /\ s_match.claim = db.claims[first].normalized_terms

\* Two stored claims of different text tie for the highest similarity and
\* one is returned.
C22_Witness ==
    /\ s_pc = "done"
    /\ s_match.claim # None
    /\ \E j, k \in ScoredRows :
          /\ j < k
          /\ SimilarityOf(j) = BestSimilarity
          /\ SimilarityOf(k) = BestSimilarity
          /\ db.claims[j].normalized_terms # db.claims[k].normalized_terms

(***************************************************************************)
(* The support of a match: one call of search_grouped on a database with   *)
(* up to MaxSources sources, active or offline, and up to MaxClaims        *)
(* articles of these sources.  Every stored claim has the embedding of     *)
(* the query, so that the first stored claim is the match.                 *)
(***************************************************************************)
MaxSources == 4

SourceNames == <<"Finnhub", "YFinance", "NewsAPI", "AlphaVantage", "Other">>

\* The sources table: source k is statuses[k]
SourcesTable(statuses) ==
    [k \in 1..Len(statuses) |->
        [source_id |-> k,
         source_name |-> IF k <= 4 THEN SourceNames[k] ELSE SourceNames[5],
         status |-> statuses[k]]]

\* The tables for articles arts, each <<source_id, normalized_terms>>, in
\* the order they were ingested; article k was published at time k
SupportDatabase(statuses, arts) ==
    [sources |-> SourcesTable(statuses),
     articles |->
        [k \in 1..Len(arts) |->
            [article_id |-> k,
             source_id |-> arts[k][1],
             institution |-> "TSLA",
             title |-> k,
             url |-> k,
             published_at |-> Datetime(k)]],
     claims |->
        [k \in 1..Len(arts) |->
            [claim_id |-> k,
             article_id |-> k,
             normalized_terms |-> arts[k][2],
             embedding |-> PyList(VA)]]]

SupportTerms == {t \in StoredTerms : Truthy(t)}

SupportDatabases ==
    { SupportDatabase(statuses, arts) :
        <<statuses, arts>> \in
            UNION { {statuses} \X SeqsUpTo((1..Len(statuses)) \X SupportTerms, MaxClaims) :
                      statuses \in SeqsUpTo({"active", "offline"}, MaxSources) } }

InitSupport ==
    /\ s_pc = "start"
    /\ db \in SupportDatabases
    /\ user_input = PyStr(<<"T", "e", "s", "l", "a", " ", "u", "p">>)
    /\ user_vec = VA
    /\ min_similarity = 1200
    /\ s_match = Null
    /\ s_out = Null
    /\ ParserIdle
    /\ ValueIdle
    /\ DriftIdle
    /\ RulesIdle
    /\ NormIdle
    /\ CallsIdle

SpecSupport == InitSupport /\ [][NextSearch]_vars

(***************************************************************************)
(* Claims about the support of a match.                                    *)
(***************************************************************************)
\* C23: in every search result support_ratio is sources_supporting /
\* total_sources rounded to three decimals (counted in thousandths: the
\* nearest integer to 1000 * sources_supporting / total_sources), it is 0
\* when total_sources is 0, it lies between 0 and 1, and it is 0.500 for 2
\* supporting sources out of 4.
C23_SupportRatio ==
    s_pc = "done" =>
        LET n     == s_out.sources_supporting
            total == s_out.total_sources
            ratio == s_out.support_ratio
            error == ratio * total - 1000 * n
        IN  /\ total = 0 => ratio = 0
            /\ total > 0 => 2 * error <= total /\ -2 * error <= total
            /\ 0 <= ratio /\ ratio <= 1000
            /\ total = 4 /\ n = 2 => ratio = 500

\* A match that two of four active sources support.
C23_Witness ==
    /\ s_pc = "done"
    /\ s_out.match_found
    /\ s_out.total_sources = 4
    /\ s_out.sources_supporting = 2
    /\ s_out.support_ratio = 500

\* The sources marked active, and those of them that have an article whose
\* claim string is terms
ActiveSources == {k \in DOMAIN db.sources : db.sources[k].status = "active"}
ArticlesOf(k, terms) ==
    { a \in DOMAIN db.articles :
        /\ db.articles[a].source_id = db.sources[k].source_id
        /\ \E c \in DOMAIN db.claims :
              /\ db.claims[c].article_id = db.articles[a].article_id
              /\ db.claims[c].normalized_terms = terms }
Supporting(terms) == {k \in ActiveSources : ArticlesOf(k, terms) # {}}

\* C24: for a match, total_sources is the number of active sources and
\* sources_supporting the number of active sources with at least one article
\* whose claim string is the matched claim; it never exceeds total_sources.
C24_SupportCounts ==
    s_pc = "done" /\ s_out.match_found =>
        /\ s_out.total_sources = Cardinality(ActiveSources)
        /\ s_out.sources_supporting = Cardinality(Supporting(s_out.matched_claim))
        /\ s_out.sources_supporting <= s_out.total_sources

\* A match supported by two articles of one active source, which count once.
C24_Witness ==
    /\ s_pc = "done"
    /\ s_out.match_found
    /\ s_out.sources_supporting = 1
    /\ \E k \in ActiveSources :
          Cardinality(ArticlesOf(k, s_out.matched_claim)) = 2

(***************************************************************************)
(* The evidence of a match: one call of search_grouped on a database with  *)
(* two active sources and an offline one, whose articles were published at *)
(* one of two times or have no published_at.                               *)
(***************************************************************************)
\* The tables for articles arts, each <<source_id, normalized_terms,
\* published_at>>
EvidenceDatabase(arts) ==
    [sources |-> SourcesTable(<<"active", "active", "offline">>),
     articles |->
        [k \in 1..Len(arts) |->
            [article_id |-> k,
             source_id |-> arts[k][1],
             institution |-> "TSLA",
             title |-> k,
             url |-> k,
             published_at |-> arts[k][3]]],
     claims |->
        [k \in 1..Len(arts) |->
            [claim_id |-> k,
             article_id |-> k,
             normalized_terms |-> arts[k][2],
             embedding |-> PyList(VA)]]]

PublishedAt == {None, Datetime(1), Datetime(2)}

EvidenceDatabases ==
    { EvidenceDatabase(arts) :
        arts \in SeqsUpTo((1..3) \X SupportTerms \X PublishedAt, MaxClaims) }

InitEvidence ==
    /\ s_pc = "start"
    /\ db \in EvidenceDatabases
    /\ user_input = PyStr(<<"T", "e", "s", "l", "a", " ", "u", "p">>)
    /\ user_vec = VA
    /\ min_similarity = 1200
    /\ s_match = Null
    /\ s_out = Null
    /\ ParserIdle
    /\ ValueIdle
    /\ DriftIdle
    /\ RulesIdle
    /\ NormIdle
    /\ CallsIdle

SpecEvidence == InitEvidence /\ [][NextSearch]_vars

(***************************************************************************)
(* Claims about the evidence of a match.                                   *)
(***************************************************************************)
\* The articles of active sources whose claim string is terms; an article
\* is named by its title
Qualifying(terms) == UNION {ArticlesOf(k, terms) : k \in ActiveSources}

\* C25: the evidence of a match lists exactly the articles of active
\* sources whose claim string is the matched claim, each once, later
\* published_at first, and the articles without published_at after all
\* those that have one.
C25_EvidenceOrder ==
    s_pc = "done" /\ s_out.match_found =>
        LET ev == s_out.evidence
        IN  /\ Len(ev) = Cardinality(Qualifying(s_out.matched_claim))
            /\ {ev[i].title : i \in DOMAIN ev}
                 = {db.articles[a].title : a \in Qualifying(s_out.matched_claim)}
            /\ \A i, j \in DOMAIN ev :
                  i < j /\ ev[i].published_at # None /\ ev[j].published_at # None
                      => ev[i].published_at.isoformat >= ev[j].published_at.isoformat
            /\ \A i, j \in DOMAIN ev :
                  i < j /\ ev[i].published_at = None => ev[j].published_at = None

(***************************************************************************)
(* Missing configuration: detect_drift called without an authoritative     *)
(* source, and search_grouped called while no source is active.            *)
(***************************************************************************)
\* authoritative_source when none is configured (None or the empty string):
\* a value that is the source_name of no row
NotConfigured == ""

InitConfig ==
    \/ /\ d_pc = "start"
       /\ claim_rows \in SeqsUpTo(RowSet, MaxRows)
       /\ article_lookup \in Lookups
       /\ authoritative_source = NotConfigured
       /\ drift_result = Null
       /\ ParserIdle
       /\ ValueIdle
       /\ RulesIdle
       /\ NormIdle
       /\ SearchIdle
       /\ CallsIdle
    \/ /\ s_pc = "start"
       /\ db \in {d \in SupportDatabases :
                     \A k \in DOMAIN d.sources : d.sources[k].status = "offline"}
       /\ user_input \in UserInputs
       /\ user_vec \in {E1, VA}
       /\ min_similarity \in MinSimilarities
       /\ s_match = Null
       /\ s_out = Null
       /\ ParserIdle
       /\ ValueIdle
       /\ DriftIdle
       /\ RulesIdle
       /\ NormIdle
       /\ CallsIdle

NextConfig == Detect \/ Search

SpecConfig == InitConfig /\ [][NextConfig]_vars

\* C26: detect_drift called without an authoritative source ends in an
\* error, not in a returned list, and so does a search made while no source
\* is active, which does not end in a result with total_sources = 0.
C26_MissingConfigurationFails ==
    /\ d_pc = "done" /\ authoritative_source = NotConfigured =>
           drift_result.raised # "none"
    /\ s_pc = "done" /\ SQL_ACTIVE_TOTAL(db) = 0 =>
           "raised" \in DOMAIN s_out /\ s_out.raised # "none"

(***************************************************************************)
(* ingestion/symbol_resolver.py                                            *)
(***************************************************************************)
\* The entries of COMPANY_SYMBOL_MAP, <<keyword, symbol>>, in the order of
\* the dict
COMPANY_SYMBOL_MAP ==
    <<
       <<<<"a", "p", "p", "l", "e">>, <<"A", "A", "P", "L">>>>,
       <<<<"a", "p", "p", "l", "e", " ", "i", "n", "c">>, <<"A", "A", "P", "L">>>>,
       <<<<"m", "i", "c", "r", "o", "s", "o", "f", "t">>, <<"M", "S", "F", "T">>>>,
       <<<<"m", "s", "f", "t">>, <<"M", "S", "F", "T">>>>,
       <<<<"g", "o", "o", "g", "l", "e">>, <<"G", "O", "O", "G", "L">>>>,
       <<<<"a", "l", "p", "h", "a", "b", "e", "t">>, <<"G", "O", "O", "G", "L">>>>,
       <<<<"g", "o", "o", "g", "l", "e", " ", "i", "n", "c">>, <<"G", "O", "O", "G", "L">>>>,
       <<<<"a", "m", "a", "z", "o", "n">>, <<"A", "M", "Z", "N">>>>,
       <<<<"a", "m", "a", "z", "o", "n", ".", "c", "o", "m">>, <<"A", "M", "Z", "N">>>>,
       <<<<"a", "m", "a", "z", "o", "n", " ", "i", "n", "c">>, <<"A", "M", "Z", "N">>>>,
       <<<<"f", "a", "c", "e", "b", "o", "o", "k">>, <<"M", "E", "T", "A">>>>,
       <<<<"m", "e", "t", "a">>, <<"M", "E", "T", "A">>>>,
       <<<<"m", "e", "t", "a", " ", "p", "l", "a", "t", "f", "o", "r", "m", "s">>, <<"M", "E", "T", "A">>>>,
       <<<<"t", "e", "s", "l", "a">>, <<"T", "S", "L", "A">>>>,
       <<<<"t", "e", "s", "l", "a", " ", "i", "n", "c">>, <<"T", "S", "L", "A">>>>,
       <<<<"n", "e", "t", "f", "l", "i", "x">>, <<"N", "F", "L", "X">>>>,
       <<<<"n", "v", "i", "d", "i", "a">>, <<"N", "V", "D", "A">>>>,
       <<<<"i", "n", "t", "e", "l">>, <<"I", "N", "T", "C">>>>,
       <<<<"a", "m", "d">>, <<"A", "M", "D">>>>,
       <<<<"a", "d", "v", "a", "n", "c", "e", "d", " ", "m", "i", "c", "r", "o", " ", "d", "e", "v", "i", "c", "e", "s">>, <<"A", "M", "D">>>>,
       <<<<"i", "b", "m">>, <<"I", "B", "M">>>>,
       <<<<"i", "n", "t", "e", "r", "n", "a", "t", "i", "o", "n", "a", "l", " ", "b", "u", "s", "i", "n", "e", "s", "s", " ", "m", "a", "c", "h", "i", "n", "e", "s">>, <<"I", "B", "M">>>>,
       <<<<"o", "r", "a", "c", "l", "e">>, <<"O", "R", "C", "L">>>>,
       <<<<"s", "a", "l", "e", "s", "f", "o", "r", "c", "e">>, <<"C", "R", "M">>>>,
       <<<<"s", "a", "l", "e", "s", "f", "o", "r", "c", "e", ".", "c", "o", "m">>, <<"C", "R", "M">>>>,
       <<<<"a", "d", "o", "b", "e">>, <<"A", "D", "B", "E">>>>,
       <<<<"p", "a", "y", "p", "a", "l">>, <<"P", "Y", "P", "L">>>>,
       <<<<"q", "u", "a", "l", "c", "o", "m", "m">>, <<"Q", "C", "O", "M">>>>,
       <<<<"c", "i", "s", "c", "o">>, <<"C", "S", "C", "O">>>>,
       <<<<"u", "b", "e", "r">>, <<"U", "B", "E", "R">>>>,
       <<<<"l", "y", "f", "t">>, <<"L", "Y", "F", "T">>>>,
       <<<<"a", "i", "r", "b", "n", "b">>, <<"A", "B", "N", "B">>>>,
       <<<<"z", "o", "o", "m">>, <<"Z", "M">>>>,
       <<<<"z", "o", "o", "m", " ", "v", "i", "d", "e", "o">>, <<"Z", "M">>>>,
       <<<<"z", "o", "o", "m", " ", "v", "i", "d", "e", "o", " ", "c", "o", "m", "m", "u", "n", "i", "c", "a", "t", "i", "o", "n", "s">>, <<"Z", "M">>>>,
       <<<<"s", "p", "o", "t", "i", "f", "y">>, <<"S", "P", "O", "T">>>>,
       <<<<"s", "h", "o", "p", "i", "f", "y">>, <<"S", "H", "O", "P">>>>,
       <<<<"s", "q", "u", "a", "r", "e">>, <<"S", "Q">>>>,
       <<<<"b", "l", "o", "c", "k">>, <<"S", "Q">>>>,
       <<<<"t", "w", "i", "t", "t", "e", "r">>, <<"X">>>>,
       <<<<"x">>, <<"X">>>>,
       <<<<"w", "a", "l", "m", "a", "r", "t">>, <<"W", "M", "T">>>>,
       <<<<"w", "a", "l", "-", "m", "a", "r", "t">>, <<"W", "M", "T">>>>,
       <<<<"t", "a", "r", "g", "e", "t">>, <<"T", "G", "T">>>>,
       <<<<"c", "o", "s", "t", "c", "o">>, <<"C", "O", "S", "T">>>>,
       <<<<"h", "o", "m", "e", " ", "d", "e", "p", "o", "t">>, <<"H", "D">>>>,
       <<<<"t", "h", "e", " ", "h", "o", "m", "e", " ", "d", "e", "p", "o", "t">>, <<"H", "D">>>>,
       <<<<"l", "o", "w", "e", "s">>, <<"L", "O", "W">>>>,
       <<<<"l", "o", "w", "e", "'", "s">>, <<"L", "O", "W">>>>,
       <<<<"n", "i", "k", "e">>, <<"N", "K", "E">>>>,
       <<<<"c", "o", "c", "a", " ", "c", "o", "l", "a">>, <<"K", "O">>>>,
       <<<<"c", "o", "c", "a", "-", "c", "o", "l", "a">>, <<"K", "O">>>>,
       <<<<"p", "e", "p", "s", "i">>, <<"P", "E", "P">>>>,
       <<<<"p", "e", "p", "s", "i", "c", "o">>, <<"P", "E", "P">>>>,
       <<<<"m", "c", "d", "o", "n", "a", "l", "d", "s">>, <<"M", "C", "D">>>>,
       <<<<"m", "c", "d", "o", "n", "a", "l", "d", "'", "s">>, <<"M", "C", "D">>>>,
       <<<<"s", "t", "a", "r", "b", "u", "c", "k", "s">>, <<"S", "B", "U", "X">>>>,
       <<<<"d", "i", "s", "n", "e", "y">>, <<"D", "I", "S">>>>,
       <<<<"w", "a", "l", "t", " ", "d", "i", "s", "n", "e", "y">>, <<"D", "I", "S">>>>,
       <<<<"v", "i", "s", "a">>, <<"V">>>>,
       <<<<"m", "a", "s", "t", "e", "r", "c", "a", "r", "d">>, <<"M", "A">>>>,
       <<<<"a", "m", "e", "r", "i", "c", "a", "n", " ", "e", "x", "p", "r", "e", "s", "s">>, <<"A", "X", "P">>>>,
       <<<<"a", "m", "e", "x">>, <<"A", "X", "P">>>>,
       <<<<"j", "p", "m", "o", "r", "g", "a", "n">>, <<"J", "P", "M">>>>,
       <<<<"j", "p", " ", "m", "o", "r", "g", "a", "n">>, <<"J", "P", "M">>>>,
       <<<<"b", "a", "n", "k", " ", "o", "f", " ", "a", "m", "e", "r", "i", "c", "a">>, <<"B", "A", "C">>>>,
       <<<<"b", "o", "f", "a">>, <<"B", "A", "C">>>>,
       <<<<"g", "o", "l", "d", "m", "a", "n", " ", "s", "a", "c", "h", "s">>, <<"G", "S">>>>,
       <<<<"m", "o", "r", "g", "a", "n", " ", "s", "t", "a", "n", "l", "e", "y">>, <<"M", "S">>>>,
       <<<<"w", "e", "l", "l", "s", " ", "f", "a", "r", "g", "o">>, <<"W", "F", "C">>>>,
       <<<<"f", "o", "r", "d">>, <<"F">>>>,
       <<<<"f", "o", "r", "d", " ", "m", "o", "t", "o", "r">>, <<"F">>>>,
       <<<<"g", "e", "n", "e", "r", "a", "l", " ", "m", "o", "t", "o", "r", "s">>, <<"G", "M">>>>,
       <<<<"g", "m">>, <<"G", "M">>>>,
       <<<<"t", "o", "y", "o", "t", "a">>, <<"T", "M">>>>,
       <<<<"v", "o", "l", "k", "s", "w", "a", "g", "e", "n">>, <<"V", "W", "A", "G", "Y">>>>,
       <<<<"v", "w">>, <<"V", "W", "A", "G", "Y">>>>,
       <<<<"e", "x", "x", "o", "n">>, <<"X", "O", "M">>>>,
       <<<<"e", "x", "x", "o", "n", " ", "m", "o", "b", "i", "l">>, <<"X", "O", "M">>>>,
       <<<<"c", "h", "e", "v", "r", "o", "n">>, <<"C", "V", "X">>>>,
       <<<<"s", "h", "e", "l", "l">>, <<"S", "H", "E", "L">>>>,
       <<<<"b", "p">>, <<"B", "P">>>>,
       <<<<"a", "s", "m", "l">>, <<"A", "S", "M", "L">>>>,
       <<<<"t", "s", "m", "c">>, <<"T", "S", "M">>>>,
       <<<<"t", "a", "i", "w", "a", "n", " ", "s", "e", "m", "i", "c", "o", "n", "d", "u", "c", "t", "o", "r">>, <<"T", "S", "M">>>>,
       <<<<"b", "r", "o", "a", "d", "c", "o", "m">>, <<"A", "V", "G", "O">>>>,
       <<<<"s", "o", "n", "y">>, <<"S", "O", "N", "Y">>>>,
       <<<<"n", "e", "t", "f", "l", "i", "x", " ", "i", "n", "c">>, <<"N", "F", "L", "X">>>>,
       <<<<"w", "a", "r", "n", "e", "r", " ", "b", "r", "o", "s">>, <<"W", "B", "D">>>>,
       <<<<"w", "a", "r", "n", "e", "r", " ", "b", "r", "o", "t", "h", "e", "r", "s">>, <<"W", "B", "D">>>>,
       <<<<"c", "o", "i", "n", "b", "a", "s", "e">>, <<"C", "O", "I", "N">>>>,
       <<<<"c", "o", "i", "n", "b", "a", "s", "e", " ", "g", "l", "o", "b", "a", "l">>, <<"C", "O", "I", "N">>>>,
       <<<<"r", "i", "o", "t">>, <<"R", "I", "O", "T">>>>,
       <<<<"r", "i", "o", "t", " ", "b", "l", "o", "c", "k", "c", "h", "a", "i", "n">>, <<"R", "I", "O", "T">>>>,
       <<<<"m", "a", "r", "a", "t", "h", "o", "n">>, <<"M", "A", "R", "A">>>>,
       <<<<"m", "a", "r", "a", "t", "h", "o", "n", " ", "d", "i", "g", "i", "t", "a", "l">>, <<"M", "A", "R", "A">>>>
    >>

\* What _finnhub_lookup_symbol can give: None (no API key, no result, an
\* exception) or the symbol the lookup service ranks first
LookupResults == {None, PyStr(<<"Z", "Z", "Z">>)}

\* lookup is what _finnhub_lookup_symbol(title) gives
resolve_symbol_from_title(title, lookup) ==
    IF ~Truthy(title) THEN None
    ELSE LET lowered == Lower(title.s)
             hits == {k \in DOMAIN COMPANY_SYMBOL_MAP :
                         Contains(lowered, COMPANY_SYMBOL_MAP[k][1])}
         IN  IF hits # {}
             THEN PyStr(COMPANY_SYMBOL_MAP[CHOOSE k \in hits : \A j \in hits : k <= j][2])
             ELSE lookup

(***************************************************************************)
(* ingestion/sources.py, ingestion/health.py, ingestion/ingest.py and      *)
(* search_with_auto_ingest of ingestion/search.py.  A call runs statement  *)
(* by statement; the loops over SOURCES take one step per source.  The     *)
(* database is the one search_grouped reads; a step ends with the commit   *)
(* the code makes.  api[id] holds what the API of source id answers:       *)
(* preflight (the check succeeds), fetch ("ok" or "raise") and items (the  *)
(* articles a successful fetch returns, each with the embedding the model  *)
(* gives for its title).                                                   *)
(***************************************************************************)
SOURCES_initial ==
    <<[id |-> 1, name |-> PyStr(<<"F", "i", "n", "n", "h", "u", "b">>), type |-> "finnhub",
       symbol |-> PyStr(<<"A", "A", "P", "L">>)],
      [id |-> 2, name |-> PyStr(<<"Y", "F", "i", "n", "a", "n", "c", "e">>), type |-> "yfinance",
       symbol |-> PyStr(<<"A", "A", "P", "L">>)],
      [id |-> 3, name |-> PyStr(<<"N", "e", "w", "s", "A", "P", "I">>), type |-> "newsapi",
       symbol |-> PyStr(<<"A", "A", "P", "L">>)],
      [id |-> 4, name |-> PyStr(<<"A", "l", "p", "h", "a", "V", "a", "n", "t", "a", "g", "e">>), type |-> "alphavantage",
       symbol |-> PyStr(<<"A", "A", "P", "L">>)]>>

\* One pass of the loop of update_sources_symbol
UpdatedSource(src, new_symbol) ==
    [src EXCEPT
        !.symbol = new_symbol,
        !.name = IF src.type = "finnhub"
                     THEN PyStr(<<"F", "i", "n", "n", "h", "u", "b", "_">> \o new_symbol.s)
                 ELSE IF src.type = "yfinance"
                     THEN PyStr(<<"Y", "F", "i", "n", "a", "n", "c", "e", "_">> \o new_symbol.s)
                 ELSE @]

\* db.query(Source).filter_by(source_id=id).first(): the index of the row,
\* 0 when there is none
SourceRow(d, id) ==
    IF \E k \in DOMAIN d.sources : d.sources[k].source_id = id
    THEN CHOOSE k \in DOMAIN d.sources : d.sources[k].source_id = id
    ELSE 0

\* upsert_sources from SOURCES[i] on, on the rows of the sources table
RECURSIVE UpsertRows(_, _, _)
UpsertRows(rows, sources, i) ==
    IF i > Len(sources) THEN rows
    ELSE LET src == sources[i]
             k   == SourceRow([sources |-> rows], src.id)
         IN  IF k = 0
             THEN UpsertRows(Append(rows, [source_id |-> src.id,
                                           source_name |-> src.name,
                                           status |-> "active"]),
                             sources, i + 1)
             ELSE UpsertRows([rows EXCEPT ![k].source_name = src.name],
                             sources, i + 1)

upsert_sources(d, sources) ==
    [d EXCEPT !.sources = UpsertRows(d.sources, sources, 1)]

\* ingestion/health.py, on the row at index k
mark_active(d, k) == [d EXCEPT !.sources[k].status = "active"]
mark_offline(d, k) == [d EXCEPT !.sources[k].status = "offline"]

\* The source types preflight_source and ingest know
SourceTypes == {"finnhub", "yfinance", "newsapi", "alphavantage"}

\* preflight_source(src)[0]; a is what the API of the source answers
preflight_source(src, a) == src.type \in SourceTypes /\ a.preflight

\* add_article_and_claim for one fetched item
add_article_and_claim(d, source_id, item) ==
    LET article_id == Len(d.articles) + 1
    IN  [d EXCEPT
            !.articles = Append(@, [article_id |-> article_id,
                                    source_id |-> source_id,
                                    institution |-> item.institution,
                                    title |-> item.title,
                                    url |-> item.url,
                                    published_at |-> item.published_at]),
            !.claims = Append(@, [claim_id |-> Len(d.claims) + 1,
                                  article_id |-> article_id,
                                  normalized_terms |-> normalize(item.title),
                                  embedding |-> PyList(item.vec)])]

RECURSIVE AddItems(_, _, _, _)
AddItems(d, source_id, items, i) ==
    IF i > Len(items) THEN d
    ELSE AddItems(add_article_and_claim(d, source_id, items[i]), source_id, items, i + 1)

\* The body of the loop of _phase1_preflight_update_statuses for src
PreflightOne(d, src, a) ==
    LET k == SourceRow(d, src.id)
    IN  IF k = 0 THEN d
        ELSE IF preflight_source(src, a) THEN mark_active(d, k)
        ELSE mark_offline(d, k)

\* Mutant: phase 2 fetches every source that has a row, whatever its status.
IsFetched_any_status(d, src) == SourceRow(d, src.id) # 0

\* A source of phase 2 is fetched: its row exists and is active
IsFetched(d, src) ==
    LET k == SourceRow(d, src.id)
    IN  k # 0 /\ d.sources[k].status = "active"

\* The articles a successful fetch of src adds: for yfinance one article,
\* whose title is built from the symbol
FetchedItems(src, a) ==
    IF src.type = "yfinance"
    THEN <<[a.items[1] EXCEPT
              !.institution = "Yahoo Finance",
              !.title = PyStr(src.symbol.s \o <<" ", "y", "f", "i", "n", "a", "n", "c", "e", " ", "c", "l", "o", "s", "e", "=", "1", ".", "0", " ", "v", "o", "l", "u", "m", "e", "=", "1">>)]>>
    ELSE a.items

\* The body of the loop of phase 2 of ingest for src: the articles of a
\* fetch that raises, or whose commit raises, are rolled back
IngestOne(d, src, a) ==
    LET k == SourceRow(d, src.id)
    IN  IF ~IsFetched(d, src) THEN d
        ELSE IF src.type \in SourceTypes /\ a.fetch = "ok"
             THEN mark_active(AddItems(d, d.sources[k].source_id,
                                       FetchedItems(src, a), 1), k)
        ELSE mark_offline(d, k)

\* The calls in progress
Calls == DOMAIN c_pc

\* What the steps of the calls leave alone
OthersUnchanged ==
    UNCHANGED <<api, c_fn, c_query, parser_vars, value_vars, drift_vars, rules_vars,
                norm_vars, s_pc, user_input, user_vec, min_similarity, s_match, s_out>>

\* Mutant: the call goes on to resolve a symbol and ingest although the
\* first search found a match.
Search1_ignores_match ==
    \E c \in Calls :
        /\ c_pc[c] = "search1"
        /\ \E result1 \in search_grouped(db, c_query[c].user_input,
                             find_best_semantic_match(db, c_query[c].user_vec,
                                                      c_query[c].min_similarity),
                             c_query[c].min_similarity) :
              /\ c_result' = [c_result EXCEPT ![c] = result1]
              /\ c_log' = [c_log EXCEPT ![c] =
                              Append(@, [op |-> "search_grouped",
                                         match_found |-> result1.match_found])]
        /\ c_pc' = [c_pc EXCEPT ![c] = "resolve"]
        /\ UNCHANGED <<db, SOURCES, c_symbol, c_i, c_out>>
        /\ OthersUnchanged

\* result1 = search_grouped(user_input, min_similarity), and the return of
\* search_with_auto_ingest when a match was found
Search1 ==
    \E c \in Calls :
        /\ c_pc[c] = "search1"
        /\ \E result1 \in search_grouped(db, c_query[c].user_input,
                             find_best_semantic_match(db, c_query[c].user_vec,
                                                      c_query[c].min_similarity),
                             c_query[c].min_similarity) :
              /\ c_result' = [c_result EXCEPT ![c] = result1]
              /\ c_log' = [c_log EXCEPT ![c] =
                              Append(@, [op |-> "search_grouped",
                                         match_found |-> result1.match_found])]
              /\ IF result1.match_found
                 THEN /\ c_out' = [c_out EXCEPT ![c] =
                                      [ingestion_ran |-> FALSE, resolved_symbol |-> None]
                                          @@ result1]
                      /\ c_pc' = [c_pc EXCEPT ![c] = "done"]
                 ELSE /\ c_pc' = [c_pc EXCEPT ![c] = "resolve"]
                      /\ UNCHANGED c_out
        /\ UNCHANGED <<db, SOURCES, c_symbol, c_i>>
        /\ OthersUnchanged

\* symbol = resolve_symbol_from_title(user_input), and the return when no
\* symbol was resolved
Resolve ==
    \E c \in Calls :
        /\ c_pc[c] = "resolve"
        /\ \E lookup \in LookupResults :
              LET symbol == resolve_symbol_from_title(c_query[c].user_input, lookup)
              IN  IF ~Truthy(symbol)
                  THEN /\ c_out' = [c_out EXCEPT ![c] =
                            [ingestion_ran |-> FALSE,
                             resolved_symbol |-> None,
                             message |-> <<"No match found and could not resolve a company ticker from the headline.">>]
                                @@ c_result[c]]
                       /\ c_pc' = [c_pc EXCEPT ![c] = "done"]
                       /\ UNCHANGED <<c_symbol, c_i>>
                  ELSE /\ c_symbol' = [c_symbol EXCEPT ![c] = symbol]
                       /\ c_i' = [c_i EXCEPT ![c] = 1]
                       /\ c_pc' = [c_pc EXCEPT ![c] = "update"]
                       /\ UNCHANGED c_out
        /\ UNCHANGED <<db, SOURCES, c_result, c_log>>
        /\ OthersUnchanged

\* update_sources_symbol(symbol): one pass of its loop
UpdateSource ==
    \E c \in Calls :
        /\ c_pc[c] = "update"
        /\ SOURCES' = [SOURCES EXCEPT ![c_i[c]] = UpdatedSource(@, c_symbol[c])]
        /\ IF c_i[c] < Len(SOURCES)
           THEN /\ c_i' = [c_i EXCEPT ![c] = @ + 1]
                /\ UNCHANGED <<c_pc, c_log>>
           ELSE /\ c_pc' = [c_pc EXCEPT ![c] = "ingest"]
                /\ c_i' = [c_i EXCEPT ![c] = 1]
                /\ c_log' = [c_log EXCEPT ![c] = Append(@, [op |-> "update_sources_symbol"])]
        /\ UNCHANGED <<db, c_symbol, c_result, c_out>>
        /\ OthersUnchanged

\* ingest(): init_db() and upsert_sources(db)
IngestStart ==
    \E c \in Calls :
        /\ c_pc[c] = "ingest"
        /\ db' = upsert_sources(db, SOURCES)
        /\ c_log' = [c_log EXCEPT ![c] = Append(@, [op |-> "ingest"])]
        /\ c_i' = [c_i EXCEPT ![c] = 1]
        /\ c_pc' = [c_pc EXCEPT ![c] = "preflight"]
        /\ UNCHANGED <<SOURCES, c_symbol, c_result, c_out>>
        /\ OthersUnchanged

\* _phase1_preflight_update_statuses(db): one pass of its loop
Preflight ==
    \E c \in Calls :
        /\ c_pc[c] = "preflight"
        /\ LET src == SOURCES[c_i[c]]
           IN  /\ db' = PreflightOne(db, src, api[src.id])
               /\ c_log' = [c_log EXCEPT ![c] =
                               IF SourceRow(db, src.id) = 0 THEN @
                               ELSE Append(@, [op |-> "preflight", id |-> src.id,
                                               ok |-> preflight_source(src, api[src.id])])]
        /\ IF c_i[c] < Len(SOURCES)
           THEN /\ c_i' = [c_i EXCEPT ![c] = @ + 1]
                /\ UNCHANGED c_pc
           ELSE /\ c_i' = [c_i EXCEPT ![c] = 1]
                /\ c_pc' = [c_pc EXCEPT ![c] = "fetch"]
        /\ UNCHANGED <<SOURCES, c_symbol, c_result, c_out>>
        /\ OthersUnchanged

\* Phase 2 of ingest(): one pass of its loop; after the last pass ingest()
\* returns
Fetch ==
    \E c \in Calls :
        /\ c_pc[c] = "fetch"
        /\ LET src == SOURCES[c_i[c]]
           IN  /\ db' = IngestOne(db, src, api[src.id])
               /\ c_log' = [c_log EXCEPT ![c] =
                               IF ~IsFetched(db, src) THEN @
                               ELSE Append(@, [op |-> "fetch", id |-> src.id,
                                               symbol |-> src.symbol,
                                               ok |-> api[src.id].fetch = "ok"])]
        /\ IF c_i[c] < Len(SOURCES)
           THEN /\ c_i' = [c_i EXCEPT ![c] = @ + 1]
                /\ UNCHANGED <<c_pc, c_out>>
           ELSE /\ c_i' = [c_i EXCEPT ![c] = 1]
                /\ IF c_fn[c] = "ingest"
                   THEN /\ c_pc' = [c_pc EXCEPT ![c] = "done"]
                        /\ c_out' = [c_out EXCEPT ![c] = None]
                   ELSE /\ c_pc' = [c_pc EXCEPT ![c] = "search2"]
                        /\ UNCHANGED c_out
        /\ UNCHANGED <<SOURCES, c_symbol, c_result>>
        /\ OthersUnchanged

\* result2 = search_grouped(user_input, min_similarity), and the return of
\* search_with_auto_ingest after the ingestion
Search2 ==
    \E c \in Calls :
        /\ c_pc[c] = "search2"
        /\ \E result2 \in search_grouped(db, c_query[c].user_input,
                             find_best_semantic_match(db, c_query[c].user_vec,
                                                      c_query[c].min_similarity),
                             c_query[c].min_similarity) :
              /\ c_result' = [c_result EXCEPT ![c] = result2]
              /\ c_out' = [c_out EXCEPT ![c] =
                    IF result2.match_found
                    THEN [ingestion_ran |-> TRUE, resolved_symbol |-> c_symbol[c]] @@ result2
                    ELSE [ingestion_ran |-> TRUE,
                          resolved_symbol |-> c_symbol[c],
                          message |-> <<"No match found after ingestion for resolved company.">>]
                             @@ result2]
              /\ c_log' = [c_log EXCEPT ![c] =
                              Append(@, [op |-> "search_grouped",
                                         match_found |-> result2.match_found])]
        /\ c_pc' = [c_pc EXCEPT ![c] = "done"]
        /\ UNCHANGED <<db, SOURCES, c_symbol, c_i>>
        /\ OthersUnchanged

(***************************************************************************)
(* Two search_with_auto_ingest calls in parallel threads, as the server    *)
(* runs them for two requests: their statements interleave in any order.   *)
(***************************************************************************)
\* A database without rows
EmptyDatabase == [sources |-> <<>>, articles |-> <<>>, claims |-> <<>>]

\* The latest row yfinance returns; its article gets the title ingest builds
YfLatest ==
    [institution |-> "Yahoo Finance", title |-> None, url |-> "yahoo",
     published_at |-> Datetime(1), vec |-> VC]

\* Every API is up; only yfinance returns an article
ApiUp ==
    [id \in 1..4 |->
        [preflight |-> TRUE, fetch |-> "ok",
         items |-> IF id = 2 THEN <<YfLatest>> ELSE <<>>]]

Query(input, vec) == [user_input |-> PyStr(input), user_vec |-> vec, min_similarity |-> 1200]

InitConcurrent ==
    /\ SOURCES = SOURCES_initial
    /\ api = ApiUp
    /\ db = EmptyDatabase
    /\ c_pc = <<"search1", "search1">>
    /\ c_fn = <<"search_with_auto_ingest", "search_with_auto_ingest">>
    /\ c_query = <<Query(<<"T", "e", "s", "l", "a", " ", "u", "p">>, VA), Query(<<"N", "v", "i", "d", "i", "a", " ", "d", "o", "w", "n">>, VB)>>
    /\ c_symbol = <<None, None>>
    /\ c_i = <<1, 1>>
    /\ c_result = <<Null, Null>>
    /\ c_log = <<<<>>, <<>>>>
    /\ c_out = <<Null, Null>>
    /\ s_pc = "idle" /\ user_input = Null /\ user_vec = Null
    /\ min_similarity = Null /\ s_match = Null /\ s_out = Null
    /\ ParserIdle
    /\ ValueIdle
    /\ DriftIdle
    /\ RulesIdle
    /\ NormIdle

NextCalls ==
    Search1 \/ Resolve \/ UpdateSource \/ IngestStart \/ Preflight \/ Fetch \/ Search2

SpecConcurrent == InitConcurrent /\ [][NextCalls]_vars

\* C27: every fetch of a call's ingest() is made with the symbol that call
\* resolved.
C27_EachCallFetchesItsOwnSymbol ==
    \A c \in Calls :
        \A k \in DOMAIN c_log[c] :
            c_log[c][k].op = "fetch" => c_log[c][k].symbol = c_symbol[c]

(***************************************************************************)
(* SpecAutoIngest: one call of search_with_auto_ingest.  The database is   *)
(* empty or was filled by an earlier ingestion; the query names a company  *)
(* of COMPANY_SYMBOL_MAP or not; the APIs are up or partly down.           *)
(***************************************************************************)
TeslaUp == <<"T", "e", "s", "l", "a", " ", "u", "p">>
AcmeUp == <<"A", "c", "m", "e", " ", "u", "p">>

\* A Finnhub news item whose headline is the query "Tesla up"
TeslaItem ==
    [institution |-> "Reuters", title |-> PyStr(TeslaUp), url |-> "reuters",
     published_at |-> Datetime(2), vec |-> VA]

\* Finnhub also returns the news item
ApiNews == [ApiUp EXCEPT ![1].items = <<TeslaItem>>]

\* Finnhub fails its preflight, yfinance raises while it is fetched
ApiDown == [ApiNews EXCEPT ![1].preflight = FALSE, ![2].fetch = "raise"]

\* The database after an earlier ingestion that stored the news item
SeededDatabase ==
    add_article_and_claim(upsert_sources(EmptyDatabase, SOURCES_initial), 1, TeslaItem)

AutoIngestQueries == {Query(TeslaUp, VA), Query(AcmeUp, VB), Query(<<>>, E1)}

InitAutoIngest ==
    /\ SOURCES = SOURCES_initial
    /\ api \in {ApiUp, ApiNews, ApiDown}
    /\ db \in {EmptyDatabase, SeededDatabase}
    /\ c_pc = <<"search1">>
    /\ c_fn = <<"search_with_auto_ingest">>
    /\ c_query \in {<<q>> : q \in AutoIngestQueries}
    /\ c_symbol = <<None>>
    /\ c_i = <<1>>
    /\ c_result = <<Null>>
    /\ c_log = <<<<>>>>
    /\ c_out = <<Null>>
    /\ s_pc = "idle" /\ user_input = Null /\ user_vec = Null
    /\ min_similarity = Null /\ s_match = Null /\ s_out = Null
    /\ ParserIdle
    /\ ValueIdle
    /\ DriftIdle
    /\ RulesIdle
    /\ NormIdle

SpecAutoIngest == InitAutoIngest /\ [][NextCalls]_vars

\* The positions in the log of call c where op was run
Ran(c, op) == {k \in DOMAIN c_log[c] : c_log[c][k].op = op}

\* C29: in a call of search_with_auto_ingest, ingest() runs at most once,
\* only after the first search_grouped found no match and a symbol was
\* resolved, and after update_sources_symbol; search_grouped runs a second
\* time exactly when ingest() ran; the result's ingestion_ran tells whether
\* ingest() ran, and its resolved_symbol is set only then.
C29_AutoIngestFlow ==
    \A c \in Calls :
        LET log      == c_log[c]
            ingests  == Ran(c, "ingest")
            searches == Ran(c, "search_grouped")
        IN  /\ Cardinality(ingests) <= 1
            /\ \A k \in ingests :
                  /\ 1 \in searches /\ ~log[1].match_found
                  /\ Truthy(c_symbol[c])
                  /\ \E j \in Ran(c, "update_sources_symbol") : 1 < j /\ j < k
                  /\ \A j \in searches : j = 1 \/ j > k
            /\ Cardinality(searches) <= 2
            /\ Cardinality(searches) = 2 => ingests # {}
            /\ c_pc[c] = "done" =>
                  /\ Cardinality(searches) = 2 <=> ingests # {}
                  /\ c_out[c].ingestion_ran <=> ingests # {}
                  /\ c_out[c].resolved_symbol # None =>
                        ingests # {} /\ c_out[c].resolved_symbol = c_symbol[c]

\* A finished call that found nothing, resolved a symbol, ingested and
\* searched again.
C29_Witness ==
    /\ c_pc[1] = "done"
    /\ c_fn[1] = "search_with_auto_ingest"
    /\ Cardinality(Ran(1, "ingest")) = 1
    /\ Cardinality(Ran(1, "search_grouped")) = 2
    /\ c_out[1].ingestion_ran
    /\ c_out[1].resolved_symbol # None
    /\ c_out[1].match_found

(***************************************************************************)
(* SpecIngest: one run of ingest().  Each API passes or fails its          *)
(* preflight, and its fetch returns or raises; the sources table is empty  *)
(* or holds the rows of an earlier run, some of them offline.              *)
(***************************************************************************)
\* What the four APIs can answer
ApiAnswers ==
    { [id \in 1..4 |->
          [preflight |-> pre[id], fetch |-> fet[id],
           items |-> IF id = 1 THEN <<TeslaItem>>
                     ELSE IF id = 2 THEN <<YfLatest>> ELSE <<>>]] :
        pre \in [1..4 -> BOOLEAN], fet \in [1..4 -> {"ok", "raise"}] }

\* The database of an earlier run that left Finnhub and NewsAPI offline
OfflineDatabase == mark_offline(mark_offline(SeededDatabase, 1), 3)

InitIngest ==
    /\ SOURCES = SOURCES_initial
    /\ api \in ApiAnswers
    /\ db \in {EmptyDatabase, SeededDatabase, OfflineDatabase}
    /\ c_pc = <<"ingest">>
    /\ c_fn = <<"ingest">>
    /\ c_query = <<None>>
    /\ c_symbol = <<None>>
    /\ c_i = <<1>>
    /\ c_result = <<Null>>
    /\ c_log = <<<<>>>>
    /\ c_out = <<Null>>
    /\ s_pc = "idle" /\ user_input = Null /\ user_vec = Null
    /\ min_similarity = Null /\ s_match = Null /\ s_out = Null
    /\ ParserIdle
    /\ ValueIdle
    /\ DriftIdle
    /\ RulesIdle
    /\ NormIdle

NextIngest == IngestStart \/ Preflight \/ Fetch

SpecIngest == InitIngest /\ [][NextIngest]_vars

\* The positions in the log of call c where op was run for source id
RanFor(c, op, id) == {k \in Ran(c, op) : c_log[c][k].id = id}

\* Source id passed its preflight, resp. was fetched without an exception
PreflightOk(c, id) == \E k \in RanFor(c, "preflight", id) : c_log[c][k].ok
FetchOk(c, id) == \E k \in RanFor(c, "fetch", id) : c_log[c][k].ok

SourceIds == {SOURCES[k].id : k \in DOMAIN SOURCES}

\* C30: in a run of ingest() every source is preflighted and its status set
\* before any source is fetched; a source whose preflight failed is offline
\* and is not fetched; at the end a source is active exactly when its
\* preflight passed and its fetch raised nothing; every source is processed
\* whatever happened to the others.
C30_IngestRun ==
    \A c \in Calls :
        /\ \A k \in Ran(c, "fetch") :
              /\ \A j \in Ran(c, "preflight") : j < k
              /\ \A id \in SourceIds : Cardinality(RanFor(c, "preflight", id)) = 1
              /\ PreflightOk(c, c_log[c][k].id)
        /\ \A id \in SourceIds :
              (RanFor(c, "preflight", id) # {} /\ ~PreflightOk(c, id)) =>
                  /\ RanFor(c, "fetch", id) = {}
                  /\ db.sources[SourceRow(db, id)].status = "offline"
        /\ c_pc[c] = "done" =>
              \A id \in SourceIds :
                  /\ SourceRow(db, id) # 0
                  /\ Cardinality(RanFor(c, "preflight", id)) = 1
                  /\ PreflightOk(c, id) <=> Cardinality(RanFor(c, "fetch", id)) = 1
                  /\ db.sources[SourceRow(db, id)].status = "active"
                        <=> (PreflightOk(c, id) /\ FetchOk(c, id))

\* A finished run in which one source failed its preflight, one raised while
\* it was fetched, and later sources were still fetched and are active.
C30_Witness ==
    /\ c_pc[1] = "done"
    /\ c_fn[1] = "ingest"
    /\ ~PreflightOk(1, 1)
    /\ PreflightOk(1, 2) /\ ~FetchOk(1, 2)
    /\ FetchOk(1, 3) /\ FetchOk(1, 4)
    /\ db.sources[SourceRow(db, 1)].status = "offline"
    /\ db.sources[SourceRow(db, 2)].status = "offline"
    /\ db.sources[SourceRow(db, 4)].status = "active"

====
